---- MODULE Spec2Model ----
(***************************************************************************)
(* A model of amaranth/hdl/_dsl.py: the procedural builder `Module`, its   *)
(* control-frame stack, the per-domain statement accumulators, the driver  *)
(* registry, the lowering of If/Elif/Else, Switch/Case/Default and         *)
(* FSM/State into Switch nodes, and `elaborate`.                           *)
(*                                                                         *)
(* One action is one builder call made by the user's Python program: the   *)
(* entry of a `with` block (the code of the context manager up to its      *)
(* `yield`), the normal exit of a `with` block (the code after `yield`,    *)
(* then the `finally` clause, then the code after the `try`), `m.d.X +=`,  *)
(* `m.next =`, `fsm.ongoing()`, `elaborate()`.  When a call raises, the    *)
(* exception is pending in `exc`; it then leaves the open `with` blocks    *)
(* one by one (Propagate runs the `finally` clause of the innermost one)   *)
(* until the user's program handles it (Catch).                            *)
(***************************************************************************)
EXTENDS Integers, Sequences, FiniteSets, TLC

(* ------------------------------ bounds -------------------------------- *)

\* builder calls (block entries, appends, transitions, queries) per run
MaxCalls == 4
\* calls that raise per run
MaxErrors == 1
\* builder calls per run of the runs that use one family of constructs
MaxIfCalls == 4
MaxSwitchCalls == 5
MaxFSMCalls == 4
MaxAssignCalls == 3

(* ------------------------------ inputs -------------------------------- *)

Domains == {"comb", "sync"}

Sig(s) == [kind |-> "user", f |-> 0, s |-> s]
OngoingSig(f, n) == [kind |-> "ongoing", f |-> f, s |-> n]
StateSig(f) == [kind |-> "state", f |-> f, s |-> ""]
NoSig == [kind |-> "none", f |-> 0, s |-> ""]

\* what is appended in one call, as the left-hand-side signals of each
\* assignment: x.eq(..) or y.eq(..)
OneAssign == { << <<Sig("x")>> >>, << <<Sig("y")>> >> }
\* ... and also Cat(x, y).eq(..) or [x.eq(..), y.eq(..)]
AssignInputs ==
  OneAssign \cup { << <<Sig("x"), Sig("y")>> >>, << <<Sig("x")>>, <<Sig("y")>> >> }

\* a one-bit and a two-bit condition
Conds == { [n |-> "a", w |-> 1, bool |-> FALSE], [n |-> "b", w |-> 2, bool |-> FALSE] }

\* the switch value: a two-bit signal
SwitchTests == { [n |-> "sel", w |-> 2] }

StrPat(s) == [k |-> "str", s |-> s, n |-> 0]
IntPat(n) == [k |-> "int", s |-> << >>, n |-> n]

\* the arguments of Case(...): "01"; 1; 1, 4; 4; "0"; "0x"
CaseInputs ==
  { << StrPat(<<"0", "1">>) >>,
    << IntPat(1) >>,
    << IntPat(1), IntPat(4) >>,
    << IntPat(4) >>,
    << StrPat(<<"0">>) >>,
    << StrPat(<<"0", "x">>) >> }

StateNames == {"A", "B"}
None == "None"
\* FSM() and FSM(init="A")
InitInputs == {None, "A"}

(* ------------------------------ values -------------------------------- *)

NoExc == [type |-> "none", what |-> "", a |-> "", b |-> "", sig |-> NoSig]
Exc(type, what) == [type |-> type, what |-> what, a |-> "", b |-> "", sig |-> NoSig]

\* {} : a dict domain -> list; a key is present iff its list is not empty,
\* since a key is only ever made by setdefault(domain, []).append(..)
EmptyAcc == [d \in Domains |-> << >>]
AccAppend(acc, d, stmt) == [acc EXCEPT ![d] = Append(@, stmt)]
AccDomains(acc) == {d \in Domains : acc[d] # << >>}

\* an OrderedDict as the sequence of its [key, body] items
DictHas(dict, key) == \E i \in 1..Len(dict) : dict[i].key = key
DictSet(dict, key, body) ==
  IF DictHas(dict, key)
  THEN [i \in 1..Len(dict) |-> IF dict[i].key = key THEN [key |-> key, body |-> body] ELSE dict[i]]
  ELSE Append(dict, [key |-> key, body |-> body])

\* The key of a case of a Switch node is a tuple of patterns; a key that is
\* None or () makes the default case, a bare key k stands for (k,).
NoneKey == << >>
StrKey(s) == << StrPat(s) >>
IntKey(n) == << IntPat(n) >>

DictGet(dict, key) == dict[CHOOSE i \in 1..Len(dict) : dict[i].key = key].body
DictKeys(dict) == [i \in 1..Len(dict) |-> dict[i].key]

Min(a, b) == IF a <= b THEN a ELSE b

(* ----------------------- user-visible statements ---------------------- *)

UserRhs == [op |-> "user", f |-> 0, code |-> 0]
Assign(lhs, rhs, id) == [t |-> "assign", lhs |-> lhs, id |-> id, rhs |-> rhs]
FSMNextStatement(f, state, id) == [t |-> "next", fsm |-> f, state |-> state, id |-> id]
SwitchNode(test, cases) == [t |-> "switch", test |-> test, cases |-> cases]

(* --------------------- If/Elif/Else lowering -------------------------- *)

Dashes(k) == [j \in 1..k |-> "-"]
rjust(s, n) == IF Len(s) >= n THEN s ELSE Dashes(n - Len(s)) \o s

\* the match string padded on the right: ("1" + "-" * (k - 1)).ljust(n, "-")
if_match_ljust(k, n) == <<"1">> \o Dashes(k - 1) \o Dashes(n - k)

\* the match string of the k-th test of n: ("1" + "-" * (k - 1)).rjust(n, "-")
if_match(k, n) == rjust(<<"1">> \o Dashes(k - 1), n)

\* if_test.bool() when len(if_test) != 1
to_bool(c) == IF c.w # 1 THEN [n |-> c.n, w |-> 1, bool |-> TRUE] ELSE c

\* zip(if_tests + [None], if_bodies) has this many pairs
if_pairs(data) == Min(Len(data.tests) + 1, Len(data.bodies))

if_key(data, k) ==
  IF k <= Len(data.tests) THEN StrKey(if_match(k, Len(data.tests))) ELSE NoneKey

\* the cases with the branches that wrote nothing in the domain left out
RECURSIVE if_cases_written(_, _, _)
if_cases_written(data, domain, k) ==
  IF k = 0 THEN << >>
  ELSE IF data.bodies[k][domain] = << >> THEN if_cases_written(data, domain, k - 1)
  ELSE DictSet(if_cases_written(data, domain, k - 1), if_key(data, k), data.bodies[k][domain])

\* the cases with the last branches left out when they wrote nothing in the domain
RECURSIVE if_cases_trimmed(_, _, _)
if_cases_trimmed(data, domain, k) ==
  IF k = 0 THEN << >>
  ELSE IF \A j \in k..if_pairs(data) : data.bodies[j][domain] = << >>
  THEN if_cases_trimmed(data, domain, k - 1)
  ELSE DictSet(if_cases_trimmed(data, domain, k - 1), if_key(data, k), data.bodies[k][domain])

RECURSIVE if_cases(_, _, _)
if_cases(data, domain, k) ==
  IF k = 0 THEN << >>
  ELSE DictSet(if_cases(data, domain, k - 1), if_key(data, k), data.bodies[k][domain])

if_tests(data) ==
  [i \in 1..Min(Len(data.tests), if_pairs(data)) |-> to_bool(data.tests[i])]

IfNode(data, domain) ==
  SwitchNode([op |-> "Cat", parts |-> if_tests(data), f |-> 0],
             if_cases(data, domain, if_pairs(data)))

if_domains(data) == UNION {AccDomains(data.bodies[i]) : i \in 1..Len(data.bodies)}

(* --------------------- Switch/Case lowering --------------------------- *)

RECURSIVE switch_cases(_, _, _)
switch_cases(data, domain, k) ==
  IF k = 0 THEN << >>
  ELSE DictSet(switch_cases(data, domain, k - 1), data.cases[k].key, data.cases[k].body[domain])

SwitchLowered(data, domain) ==
  SwitchNode([op |-> "value", parts |-> <<data.test>>, f |-> 0],
             switch_cases(data, domain, Len(data.cases)))

switch_domains(data) == UNION {AccDomains(data.cases[i].body) : i \in 1..Len(data.cases)}

(* ------------------------- FSM lowering ------------------------------- *)

NoSignal == [set |-> FALSE, n |-> 0, init |-> 0]

RECURSIVE fsm_cases(_, _, _)
fsm_cases(data, domain, k) ==
  IF k = 0 THEN << >>
  ELSE DictSet(fsm_cases(data, domain, k - 1),
               IntKey(DictGet(data.encoding, data.states[k].key)),
               data.states[k].body[domain])

FSMNode(f, data, domain) ==
  SwitchNode([op |-> "fsm_state", parts |-> << >>, f |-> f],
             fsm_cases(data, domain, Len(data.states)))

fsm_domains(data) == UNION {AccDomains(data.states[i].body) : i \in 1..Len(data.states)}

\* sig.eq(fsm_signal == fsm_encoding[name]) for every item of fsm_ongoing
fsm_ongoing_stmts(f, data) ==
  [i \in 1..Len(data.ongoing) |->
     Assign(<<data.ongoing[i].body>>,
            [op |-> "==", f |-> f, code |-> DictGet(data.encoding, data.ongoing[i].key)], 0)]

\* the state whose encoding becomes the init value of the state signal
fsm_init_name(data) == IF data.init = None THEN data.states[1].key ELSE data.init

(* ------------------------- _pop_ctrl ---------------------------------- *)

\* The builder is a record S: st = _statements, ctx = _ctrl_context,
\* stack = _ctrl_stack, depth = domain._depth, driving = _driving,
\* top = _top_comb_statements, fsms = the data of every FSM made so far (a
\* frame of the stack and an FSM object name it by its index), blocks = the
\* open with-blocks, exc = the exception in flight, warnings = what
\* warnings.warn received, nstmt = statements made, popped = the frames that
\* the call in progress has popped (with _statements before and after).

Emit(S, doms, node) ==
  [d \in Domains |-> IF d \in doms THEN Append(S.st[d], node[d]) ELSE S.st[d]]

Popped(S, data, after) ==
  Append(S.popped, [name |-> data.name, data |-> data, before |-> S.st, after |-> after])

pop_If(S, data) ==
  LET after == Emit(S, if_domains(data), [d \in Domains |-> IfNode(data, d)])
  IN [S EXCEPT !.st = after, !.popped = Popped(S, data, after)]

pop_Switch(S, data) ==
  LET after == Emit(S, switch_domains(data), [d \in Domains |-> SwitchLowered(data, d)])
  IN [S EXCEPT !.st = after, !.popped = Popped(S, data, after)]

\* the lowering that makes a state signal whose reset value is always 0
pop_FSM_init_zero(S, frame) ==
  LET f == frame.id
      data == S.fsms[f]
  IN IF data.states = << >>
     THEN [S EXCEPT !.fsms[f].signal = [set |-> TRUE, n |-> 0, init |-> 0],
                    !.popped = Popped(S, frame, S.st)]
     ELSE LET after == Emit(S, fsm_domains(data), [d \in Domains |-> FSMNode(f, data, d)])
          IN [S EXCEPT !.fsms[f].signal = [set |-> TRUE, n |-> Len(data.encoding), init |-> 0],
                       !.top = @ \o fsm_ongoing_stmts(f, data),
                       !.st = after,
                       !.popped = Popped(S, frame, after)]

pop_FSM(S, frame) ==
  LET f == frame.id
      data == S.fsms[f]
  IN IF data.states = << >>
     THEN [S EXCEPT !.fsms[f].signal = [set |-> TRUE, n |-> 0, init |-> 0],
                    !.popped = Popped(S, frame, S.st)]
     ELSE IF ~DictHas(data.encoding, fsm_init_name(data))
     THEN [S EXCEPT !.exc = Exc("KeyError", "fsm_init")]
     ELSE LET after == Emit(S, fsm_domains(data), [d \in Domains |-> FSMNode(f, data, d)])
          IN [S EXCEPT !.fsms[f].signal =
                           [set |-> TRUE, n |-> Len(data.encoding),
                            init |-> DictGet(data.encoding, fsm_init_name(data))],
                       !.top = @ \o fsm_ongoing_stmts(f, data),
                       !.st = after,
                       !.popped = Popped(S, frame, after)]

\* name, data = self._ctrl_stack.pop(), then the branch of that frame's kind
pop_ctrl(S) ==
  LET n == Len(S.stack)
      data == S.stack[n]
      S1 == [S EXCEPT !.stack = SubSeq(S.stack, 1, n - 1)]
  IN IF n = 0 THEN [S EXCEPT !.exc = Exc("IndexError", "pop from empty list")]
     ELSE IF data.name = "If" THEN pop_If(S1, data)
     ELSE IF data.name = "Switch" THEN pop_Switch(S1, data)
     ELSE pop_FSM(S1, data)

\* while len(self._ctrl_stack) > self.domain._depth: self._pop_ctrl()
RECURSIVE flush_ctrl(_)
flush_ctrl(S) ==
  IF S.exc # NoExc \/ Len(S.stack) <= S.depth THEN S ELSE flush_ctrl(pop_ctrl(S))

\* while self._ctrl_stack: self._pop_ctrl()
RECURSIVE flush_all(_)
flush_all(S) ==
  IF S.exc # NoExc \/ S.stack = << >> THEN S ELSE flush_all(pop_ctrl(S))

(* ------------------------- small helpers ------------------------------ *)

NoCond == [n |-> "", w |-> 0, bool |-> FALSE]
\* An open with-block: outer is self._statements as the block found it (the
\* local _outer_case of If, Elif, Else, Case, Default and State; Switch and FSM
\* keep no such local, and their finally clauses do not read it), fr the index
\* of the frame the block works on.
Block(kind, outer, fr, cond, pats, name, f) ==
  [kind |-> kind, outer |-> outer, fr |-> fr, cond |-> cond, pats |-> pats, name |-> name, f |-> f]

raise(S, e) == [S EXCEPT !.exc = e]
warn(S, kind, n) == [S EXCEPT !.warnings = Append(@, [kind |-> kind, n |-> n])]

\* the check that also lets the construct through inside any body
check_context_lax(S, context) == S.ctx = context \/ S.ctx = None

\* _check_context: the construct is permitted only when _ctrl_context is `context`
check_context(S, context) == S.ctx = context
ScopingError(construct) ==
  [type |-> "SyntaxError", what |-> "scoping", a |-> construct, b |-> "", sig |-> NoSig]

\* _get_ctrl: the index of the top frame when it is a `name` frame, else 0 (None)
get_ctrl(S, name) ==
  IF S.stack # << >> /\ S.stack[Len(S.stack)].name = name THEN Len(S.stack) ELSE 0

\* the push without the flush before it
set_ctrl_noflush(S, data) == [S EXCEPT !.stack = Append(@, data)]

\* _set_ctrl: flush, then push
set_ctrl(S, data) ==
  LET S1 == flush_ctrl(S)
  IN IF S1.exc # NoExc THEN S1 ELSE [S1 EXCEPT !.stack = Append(@, data)]

(* ------------------------- _add_statement ----------------------------- *)

\* the loop with the last writer winning instead of raising
RECURSIVE drive_signals_overwrite(_, _, _, _)
drive_signals_overwrite(S, lhs, i, domain) ==
  IF i > Len(lhs) THEN S
  ELSE drive_signals_overwrite([S EXCEPT !.driving = (lhs[i] :> domain) @@ @], lhs, i + 1, domain)

\* the loop over stmt._lhs_signals(): record the driver, or raise on a conflict
RECURSIVE drive_signals(_, _, _, _)
drive_signals(S, lhs, i, domain) ==
  IF i > Len(lhs) THEN S
  ELSE IF lhs[i] \notin DOMAIN S.driving
  THEN drive_signals([S EXCEPT !.driving = (lhs[i] :> domain) @@ @], lhs, i + 1, domain)
  ELSE IF S.driving[lhs[i]] # domain
  THEN raise(S, [type |-> "SyntaxError", what |-> "driver-conflict",
                 a |-> domain, b |-> S.driving[lhs[i]], sig |-> lhs[i]])
  ELSE drive_signals(S, lhs, i + 1, domain)

WithId(stmt, id) ==
  IF stmt.t = "assign" THEN Assign(stmt.lhs, UserRhs, id)
  ELSE FSMNextStatement(stmt.fsm, stmt.state, id)

\* the loop over Statement.cast(assigns)
RECURSIVE add_each(_, _, _, _)
add_each(S, assigns, i, domain) ==
  IF i > Len(assigns) THEN S
  ELSE LET S1 == IF assigns[i].t = "assign"
                 THEN drive_signals(S, assigns[i].lhs, 1, domain) ELSE S
       IN IF S1.exc # NoExc THEN S1
          ELSE add_each([S1 EXCEPT !.st = AccAppend(@, domain, WithId(assigns[i], S1.nstmt + 1)),
                                   !.nstmt = @ + 1],
                        assigns, i + 1, domain)

add_statement(S, assigns, domain) ==
  LET S1 == flush_ctrl(S)
  IN IF S1.exc # NoExc THEN S1 ELSE add_each(S1, assigns, 1, domain)

AssignStmts(lhss) == [i \in 1..Len(lhss) |-> [t |-> "assign", lhs |-> lhss[i]]]

(* ------------------------- If / Elif / Else --------------------------- *)

If_enter(S, cond) ==
  IF ~check_context(S, None) THEN raise(S, ScopingError("If"))
  ELSE LET S1 == set_ctrl(S, [name |-> "If", depth |-> S.depth, tests |-> << >>, bodies |-> << >>])
       IN IF S1.exc # NoExc THEN S1
          ELSE [S1 EXCEPT !.blocks = Append(@, Block("If", S1.st, Len(S1.stack), cond, << >>, "", 0)),
                          !.st = EmptyAcc,
                          !.depth = @ + 1]

\* Elif taking the If frame on top whatever depth it was opened at
Elif_enter_anydepth(S, cond) ==
  IF ~check_context(S, None) THEN raise(S, ScopingError("Elif"))
  ELSE LET i == get_ctrl(S, "If")
       IN IF i = 0
          THEN raise(S, Exc("SyntaxError", "Elif without preceding If"))
          ELSE [S EXCEPT !.blocks = Append(@, Block("Elif", S.st, i, cond, << >>, "", 0)),
                         !.st = EmptyAcc,
                         !.depth = @ + 1]

Elif_enter(S, cond) ==
  IF ~check_context(S, None) THEN raise(S, ScopingError("Elif"))
  ELSE LET i == get_ctrl(S, "If")
       IN IF i = 0 \/ S.stack[i].depth # S.depth
          THEN raise(S, Exc("SyntaxError", "Elif without preceding If"))
          ELSE [S EXCEPT !.blocks = Append(@, Block("Elif", S.st, i, cond, << >>, "", 0)),
                         !.st = EmptyAcc,
                         !.depth = @ + 1]

Else_enter(S) ==
  IF ~check_context(S, None) THEN raise(S, ScopingError("Else"))
  ELSE LET i == get_ctrl(S, "If")
       IN IF i = 0 \/ S.stack[i].depth # S.depth
          THEN raise(S, Exc("SyntaxError", "Else without preceding If/Elif"))
          ELSE [S EXCEPT !.blocks = Append(@, Block("Else", S.st, i, NoCond, << >>, "", 0)),
                         !.st = EmptyAcc,
                         !.depth = @ + 1]

\* finally: self.domain._depth -= 1; self._statements = _outer_case
If_finally(S, b) == [S EXCEPT !.depth = @ - 1, !.st = b.outer]

\* if_data is the frame the block holds; it is on the stack while the block is open
HasFrame(S, b) == b.fr >= 1 /\ b.fr <= Len(S.stack)

\* after the yield of If and of Elif
If_exit(S, b) ==
  LET S1 == flush_ctrl(S)
  IN IF S1.exc # NoExc THEN If_finally(S1, b)
     ELSE IF ~HasFrame(S1, b) THEN If_finally(S1, b)
     ELSE If_finally([S1 EXCEPT !.stack[b.fr].tests = Append(@, b.cond),
                                !.stack[b.fr].bodies = Append(@, S1.st)], b)

\* after the yield of Else; the frame is popped when no error left the body
Else_exit(S, b) ==
  LET S1 == flush_ctrl(S)
  IN IF S1.exc # NoExc THEN If_finally(S1, b)
     ELSE IF ~HasFrame(S1, b) THEN pop_ctrl(If_finally(S1, b))
     ELSE pop_ctrl(If_finally([S1 EXCEPT !.stack[b.fr].bodies = Append(@, S1.st)], b))

(* ------------------------- Switch / Case / Default -------------------- *)

Switch_enter(S, test) ==
  IF ~check_context(S, None) THEN raise(S, ScopingError("Switch"))
  ELSE LET S1 == set_ctrl(S, [name |-> "Switch", test |-> test, cases |-> << >>])
       IN IF S1.exc # NoExc THEN S1
          ELSE [S1 EXCEPT !.blocks = Append(@, Block("Switch", S1.st, Len(S1.stack), NoCond, << >>, "", 0)),
                          !.ctx = "Switch",
                          !.depth = @ + 1]

\* finally: self.domain._depth -= 1; self._ctrl_context = None
Switch_finally(S, b) == [S EXCEPT !.depth = @ - 1, !.ctx = None]

Switch_exit(S, b) == pop_ctrl(Switch_finally(S, b))

Whitespace == {" ", "\t"}
PatternBits == {"0", "1", "-"} \cup Whitespace

\* "".join(pattern.split())
strip(s) == SelectSeq(s, LAMBDA c : c \notin Whitespace)

RECURSIVE bit_length(_)
bit_length(n) == IF n = 0 THEN 0 ELSE 1 + bit_length(n \div 2)

\* amaranth.utils.bits_for, for the constants n >= 0 that Case receives here
bits_for(n) == IF n > 0 THEN bit_length(n) ELSE 1

\* the loop with a pattern wider than the switch value warned about and kept
RECURSIVE case_patterns_kept(_, _, _, _, _)
case_patterns_kept(S, patterns, i, w, new) ==
  IF i > Len(patterns) THEN [S |-> S, new |-> new]
  ELSE LET p == patterns[i]
           pattern_len == IF p.n = 0 THEN 0 ELSE bit_length(p.n)
       IN IF p.k = "str" /\ \E j \in 1..Len(p.s) : p.s[j] \notin PatternBits
          THEN [S |-> raise(S, Exc("SyntaxError", "pattern-bits")), new |-> new]
          ELSE IF p.k = "str" /\ Len(strip(p.s)) # w
          THEN [S |-> raise(S, Exc("SyntaxError", "pattern-width")), new |-> new]
          ELSE IF pattern_len > w
          THEN case_patterns_kept(warn(S, "wider", p.n), patterns, i + 1, w, Append(new, p))
          ELSE case_patterns_kept(S, patterns, i + 1, w, Append(new, p))

\* the loop over the patterns of Case(*patterns): [S, new], new = new_patterns
RECURSIVE case_patterns(_, _, _, _, _)
case_patterns(S, patterns, i, w, new) ==
  IF i > Len(patterns) THEN [S |-> S, new |-> new]
  ELSE LET p == patterns[i]
           pattern_len == IF p.n = 0 THEN 0 ELSE bits_for(p.n)
       IN IF p.k = "str" /\ \E j \in 1..Len(p.s) : p.s[j] \notin PatternBits
          THEN [S |-> raise(S, Exc("SyntaxError", "pattern-bits")), new |-> new]
          ELSE IF p.k = "str" /\ Len(strip(p.s)) # w
          THEN [S |-> raise(S, Exc("SyntaxError", "pattern-width")), new |-> new]
          ELSE IF p.k = "str"
          THEN case_patterns(S, patterns, i + 1, w, Append(new, p))
          ELSE IF pattern_len > w
          THEN case_patterns(warn(S, "wider", p.n), patterns, i + 1, w, new)
          ELSE case_patterns(S, patterns, i + 1, w, Append(new, IntPat(p.n)))

\* switch_data is None when the top frame is no Switch: subscripting it fails
NoneTypeError == Exc("TypeError", "'NoneType' object is not subscriptable")

Case_enter(S, patterns) ==
  IF ~check_context(S, "Switch") THEN raise(S, ScopingError("Case"))
  ELSE LET i == get_ctrl(S, "Switch")
       IN IF i = 0 THEN raise(S, NoneTypeError)
          ELSE LET S1 == IF DictHas(S.stack[i].cases, NoneKey)
                         THEN warn(S, "after-default", 0) ELSE S
                   r == case_patterns(S1, patterns, 1, S.stack[i].test.w, << >>)
               IN IF r.S.exc # NoExc THEN r.S
                  ELSE [r.S EXCEPT !.blocks = Append(@, Block("Case", S.st, i, NoCond, r.new, "", 0)),
                                   !.st = EmptyAcc,
                                   !.ctx = None]

Default_enter(S) ==
  IF ~check_context(S, "Switch") THEN raise(S, ScopingError("Default"))
  ELSE LET i == get_ctrl(S, "Switch")
       IN IF i = 0 THEN raise(S, NoneTypeError)
          ELSE LET S1 == IF DictHas(S.stack[i].cases, NoneKey)
                         THEN warn(S, "after-default", 0) ELSE S
               IN [S1 EXCEPT !.blocks = Append(@, Block("Default", S.st, i, NoCond, << >>, "", 0)),
                             !.st = EmptyAcc,
                             !.ctx = None]

\* finally: self._ctrl_context = "Switch"; self._statements = _outer_case
Case_finally(S, b) == [S EXCEPT !.ctx = "Switch", !.st = b.outer]

\* the registration that replaces the body of a pattern-set already there
Case_register_overwrite(S, b) ==
  IF b.pats # << >> /\ HasFrame(S, b)
  THEN [S EXCEPT !.stack[b.fr].cases = DictSet(@, b.pats, S.st)]
  ELSE S

\* the registration that enters a pattern-set again when it is already there
Case_register_append(S, b) ==
  IF b.pats # << >> /\ HasFrame(S, b)
  THEN [S EXCEPT !.stack[b.fr].cases = Append(@, [key |-> b.pats, body |-> S.st])]
  ELSE S

\* if new_patterns and new_patterns not in switch_data["cases"]: register the body
Case_register(S, b) ==
  IF b.pats # << >> /\ HasFrame(S, b) /\ ~DictHas(S.stack[b.fr].cases, b.pats)
  THEN [S EXCEPT !.stack[b.fr].cases = DictSet(@, b.pats, S.st)]
  ELSE S

\* the exit that registers the body without closing the frames opened in it
Case_exit_noflush(S, b) == Case_finally(Case_register(S, b), b)

Case_exit(S, b) ==
  LET S1 == flush_ctrl(S)
  IN IF S1.exc # NoExc THEN Case_finally(S1, b) ELSE Case_finally(Case_register(S1, b), b)

\* the registration that replaces the body of an earlier Default
Default_register_overwrite(S, b) ==
  IF HasFrame(S, b)
  THEN [S EXCEPT !.stack[b.fr].cases = DictSet(@, NoneKey, S.st)]
  ELSE S

\* if () not in switch_data["cases"]: register the body under ()
Default_register(S, b) ==
  IF HasFrame(S, b) /\ ~DictHas(S.stack[b.fr].cases, NoneKey)
  THEN [S EXCEPT !.stack[b.fr].cases = DictSet(@, NoneKey, S.st)]
  ELSE S

Default_exit(S, b) ==
  LET S1 == flush_ctrl(S)
  IN IF S1.exc # NoExc THEN Case_finally(S1, b) ELSE Case_finally(Default_register(S1, b), b)

(* ------------------------- FSM / State / next / ongoing --------------- *)

NewFSM(init, domain) ==
  [init |-> init, domain |-> domain, encoding |-> << >>, states |-> << >>,
   ongoing |-> << >>, signal |-> NoSignal]

\* the registration made at every reference, known name or not
register_state_again(S, f, name) ==
  [S EXCEPT !.fsms[f].encoding = DictSet(@, name, Len(@)),
            !.fsms[f].ongoing = DictSet(@, name, OngoingSig(f, name))]

\* if name not in encoding: encoding[name] = len(encoding); ongoing[name] = Signal(..)
register_state(S, f, name) ==
  IF DictHas(S.fsms[f].encoding, name) THEN S
  ELSE [S EXCEPT !.fsms[f].encoding = DictSet(@, name, Len(@)),
                 !.fsms[f].ongoing = DictSet(@, name, OngoingSig(f, name))]

FSM_enter(S, init, domain) ==
  IF ~check_context(S, None) THEN raise(S, ScopingError("FSM"))
  ELSE IF domain = "comb" THEN raise(S, Exc("ValueError", "FSM may not be driven by the comb domain"))
  ELSE LET f == Len(S.fsms) + 1
           S1 == set_ctrl(S, [name |-> "FSM", id |-> f])
       IN IF S1.exc # NoExc THEN S1
          ELSE [S1 EXCEPT !.fsms = Append(@, NewFSM(init, domain)),
                          !.blocks = Append(@, Block("FSM", S1.st, Len(S1.stack), NoCond, << >>, "", f)),
                          !.ctx = "FSM",
                          !.depth = @ + 1]

\* finally: self.domain._depth -= 1; self._ctrl_context = None
FSM_finally(S, b) == [S EXCEPT !.depth = @ - 1, !.ctx = None]

\* the first state of the encoding that has no body, or None
fsm_undefined(data) ==
  IF \E i \in 1..Len(data.encoding) : ~DictHas(data.states, data.encoding[i].key)
  THEN data.encoding[CHOOSE i \in 1..Len(data.encoding) :
                       /\ ~DictHas(data.states, data.encoding[i].key)
                       /\ \A j \in 1..(i - 1) : DictHas(data.states, data.encoding[j].key)].key
  ELSE None

\* the exit without the loop over the encoding
FSM_exit_unchecked(S, b) == pop_ctrl(FSM_finally(S, b))

FSM_exit(S, b) ==
  LET missing == fsm_undefined(S.fsms[b.f])
  IN IF missing # None
     THEN FSM_finally(raise(S, [type |-> "NameError", what |-> "referenced but not defined",
                                a |-> missing, b |-> "", sig |-> NoSig]), b)
     ELSE pop_ctrl(FSM_finally(S, b))

State_enter(S, name) ==
  IF ~check_context(S, "FSM") THEN raise(S, ScopingError("FSM State"))
  ELSE LET i == get_ctrl(S, "FSM")
       IN IF i = 0 THEN raise(S, NoneTypeError)
          ELSE LET f == S.stack[i].id
               IN IF DictHas(S.fsms[f].states, name)
                  THEN raise(S, [type |-> "NameError", what |-> "already defined",
                                 a |-> name, b |-> "", sig |-> NoSig])
                  ELSE LET S1 == register_state(S, f, name)
                       IN [S1 EXCEPT !.blocks = Append(@, Block("State", S.st, i, NoCond, << >>, name, f)),
                                     !.st = EmptyAcc,
                                     !.ctx = None]

\* finally: self._ctrl_context = "FSM"; self._statements = _outer_case
State_finally(S, b) == [S EXCEPT !.ctx = "FSM", !.st = b.outer]

State_exit(S, b) ==
  LET S1 == flush_ctrl(S)
  IN IF S1.exc # NoExc THEN State_finally(S1, b)
     ELSE State_finally([S1 EXCEPT !.fsms[b.f].states = DictSet(@, b.name, S1.st)], b)

\* the frames of the stack that are FSM frames; the setter takes the innermost
fsm_frames(S) == {i \in 1..Len(S.stack) : S.stack[i].name = "FSM"}
Max(set) == CHOOSE x \in set : \A y \in set : y <= x

next_setter(S, name) ==
  IF S.ctx # "FSM" /\ fsm_frames(S) # {}
  THEN LET f == S.stack[Max(fsm_frames(S))].id
           S1 == register_state(S, f, name)
       IN add_statement(S1, << [t |-> "next", fsm |-> f, state |-> name] >>, S1.fsms[f].domain)
  ELSE raise(S, ScopingError("m.next"))

ongoing(S, f, name) == register_state(S, f, name)

(* ------------------------- elaborate ---------------------------------- *)

\* FSMNextStatement.resolve: self.ctrl_data["signal"].eq(self.ctrl_data["encoding"][self.state])
resolve(stmt, fsms) ==
  Assign(<<StateSig(stmt.fsm)>>,
         [op |-> "const", f |-> stmt.fsm, code |-> DictGet(fsms[stmt.fsm].encoding, stmt.state)],
         stmt.id)

RECURSIVE resolve_statements(_, _)
\* the resolution that leaves the bodies of a Switch as they are
resolve_statement_shallow(stmt, fsms) ==
  IF stmt.t = "next" THEN resolve(stmt, fsms) ELSE stmt

resolve_statement(stmt, fsms) ==
  IF stmt.t = "next" THEN resolve(stmt, fsms)
  ELSE IF stmt.t = "switch"
  THEN SwitchNode(stmt.test,
                  [i \in 1..Len(stmt.cases) |->
                     [key |-> stmt.cases[i].key,
                      body |-> resolve_statements(stmt.cases[i].body, fsms)]])
  ELSE stmt

resolve_statements(stmts, fsms) ==
  [i \in 1..Len(stmts) |-> resolve_statement(stmts[i], fsms)]

\* a deferred statement whose FSM has no "signal" yet makes resolve fail
RECURSIVE no_signal(_, _)
no_signal(stmts, fsms) ==
  \E i \in 1..Len(stmts) :
    \/ stmts[i].t = "next" /\ ~fsms[stmts[i].fsm].signal.set
    \/ stmts[i].t = "switch" /\ \E j \in 1..Len(stmts[i].cases) : no_signal(stmts[i].cases[j].body, fsms)

RECURSIVE lhs_signals(_)
lhs_signals(stmts) ==
  UNION { IF stmts[i].t = "assign" THEN {stmts[i].lhs[k] : k \in 1..Len(stmts[i].lhs)}
          ELSE IF stmts[i].t = "switch"
          THEN UNION {lhs_signals(stmts[i].cases[j].body) : j \in 1..Len(stmts[i].cases)}
          ELSE {} : i \in 1..Len(stmts) }

NoFragment == [made |-> FALSE, stmts |-> EmptyAcc, drivers |-> {}]

elaborate(S) ==
  LET S1 == flush_all(S)
      resolved == [d \in Domains |-> resolve_statements(S1.st[d], S1.fsms)]
      stmts == [d \in Domains |-> IF d = "comb" THEN resolved[d] \o S1.top ELSE resolved[d]]
  IN IF S1.exc # NoExc THEN S1
     ELSE IF \E d \in Domains : no_signal(S1.st[d], S1.fsms)
     THEN raise(S1, Exc("KeyError", "signal"))
     ELSE [S1 EXCEPT !.fragment =
             [made |-> TRUE, stmts |-> stmts,
              drivers |-> UNION {{<<sg, d>> : sg \in lhs_signals(resolved[d])} : d \in Domains}
                           \cup {<<sg, "comb">> : sg \in lhs_signals(S1.top)}]]

(* ------------------------- the state ---------------------------------- *)

VARIABLES
  statements,           \* self._statements: the accumulator of the body being recorded
  ctrl_context,         \* self._ctrl_context
  ctrl_stack,           \* self._ctrl_stack
  depth,                \* self.domain._depth
  driving,              \* self._driving
  top_comb_statements,  \* self._top_comb_statements
  fsms,                 \* the fsm_data dicts, in the order FSM() made them
  blocks,               \* the with-blocks the user's program is inside of
  exc,                  \* the exception in flight, or NoExc
  warnings,             \* the diagnostics given to warnings.warn
  fragment,             \* what elaborate gave to the Fragment
  nstmt,                \* statements made so far
  popped,               \* the frames the last call popped
  last,                 \* the last call
  ncalls,               \* calls made
  nerrs                 \* calls that raised

vars == <<statements, ctrl_context, ctrl_stack, depth, driving, top_comb_statements,
          fsms, blocks, exc, warnings, fragment, nstmt, popped, last, ncalls, nerrs>>

Last(op, name, assigns, pats, f) ==
  [op |-> op, name |-> name, assigns |-> assigns, pats |-> pats, f |-> f]

\* Module.__init__
Init ==
  /\ statements = EmptyAcc
  /\ ctrl_context = None
  /\ ctrl_stack = << >>
  /\ depth = 0
  /\ driving = << >>
  /\ top_comb_statements = << >>
  /\ fsms = << >>
  /\ blocks = << >>
  /\ exc = NoExc
  /\ warnings = << >>
  /\ fragment = NoFragment
  /\ nstmt = 0
  /\ popped = << >>
  /\ last = Last("init", "", << >>, << >>, 0)
  /\ ncalls = 0
  /\ nerrs = 0

Cur ==
  [st |-> statements, ctx |-> ctrl_context, stack |-> ctrl_stack, depth |-> depth,
   driving |-> driving, top |-> top_comb_statements, fsms |-> fsms, blocks |-> blocks,
   exc |-> exc, warnings |-> warnings, fragment |-> fragment, nstmt |-> nstmt,
   popped |-> << >>]

Set(S, l) ==
  /\ statements' = S.st
  /\ ctrl_context' = S.ctx
  /\ ctrl_stack' = S.stack
  /\ depth' = S.depth
  /\ driving' = S.driving
  /\ top_comb_statements' = S.top
  /\ fsms' = S.fsms
  /\ blocks' = S.blocks
  /\ exc' = S.exc
  /\ warnings' = S.warnings
  /\ fragment' = S.fragment
  /\ nstmt' = S.nstmt
  /\ popped' = S.popped
  /\ last' = l

\* a step of the user's program that runs builder code, which may raise
Commit(S, l) ==
  /\ exc = NoExc
  /\ ~fragment.made
  /\ S.exc # NoExc => nerrs < MaxErrors
  /\ Set(S, l)
  /\ nerrs' = IF S.exc # NoExc THEN nerrs + 1 ELSE nerrs

\* a builder call; at most max of them are made
Call(max, S, l) ==
  /\ ncalls < max
  /\ Commit(S, l)
  /\ ncalls' = ncalls + 1

TopBlock == blocks[Len(blocks)]
\* the program with its innermost with-block left
Inner == [Cur EXCEPT !.blocks = SubSeq(blocks, 1, Len(blocks) - 1)]

\* the exit of the innermost with-block, which is of this kind
Leave(kind, op, S) ==
  /\ blocks # << >>
  /\ TopBlock.kind = kind
  /\ Commit(S, Last(op, TopBlock.name, << >>, TopBlock.pats, TopBlock.f))
  /\ UNCHANGED ncalls

(* ------------------------- the calls ---------------------------------- *)

\* m.d.<domain> += assigns
AddStatement(max, inputs) ==
  \E lhss \in inputs, d \in Domains :
    Call(max, add_statement(Cur, AssignStmts(lhss), d), Last("add", d, lhss, << >>, 0))

If(max) == \E c \in Conds : Call(max, If_enter(Cur, c), Last("If", "", << >>, << >>, 0))
Elif(max) == \E c \in Conds : Call(max, Elif_enter(Cur, c), Last("Elif", "", << >>, << >>, 0))
Else(max) == Call(max, Else_enter(Cur), Last("Else", "", << >>, << >>, 0))
IfExit == Leave("If", "IfExit", If_exit(Inner, TopBlock))
ElifExit == Leave("Elif", "ElifExit", If_exit(Inner, TopBlock))
ElseExit == Leave("Else", "ElseExit", Else_exit(Inner, TopBlock))

Switch(max) ==
  \E t \in SwitchTests : Call(max, Switch_enter(Cur, t), Last("Switch", "", << >>, << >>, 0))
Case(max) ==
  \E ps \in CaseInputs : Call(max, Case_enter(Cur, ps), Last("Case", "", << >>, ps, 0))
Default(max) == Call(max, Default_enter(Cur), Last("Default", "", << >>, << >>, 0))
SwitchExit == Leave("Switch", "SwitchExit", Switch_exit(Inner, TopBlock))
CaseExit == Leave("Case", "CaseExit", Case_exit(Inner, TopBlock))
DefaultExit == Leave("Default", "DefaultExit", Default_exit(Inner, TopBlock))

FSM(max) ==
  \E i \in InitInputs, d \in Domains :
    Call(max, FSM_enter(Cur, i, d), Last("FSM", i, << >>, << >>, Len(fsms) + 1))
State(max) ==
  \E n \in StateNames : Call(max, State_enter(Cur, n), Last("State", n, << >>, << >>, 0))
SetNext(max) ==
  \E n \in StateNames : Call(max, next_setter(Cur, n), Last("next", n, << >>, << >>, 0))
Ongoing(max) ==
  \E f \in 1..Len(fsms), n \in StateNames :
    Call(max, ongoing(Cur, f, n), Last("ongoing", n, << >>, << >>, f))
FSMExit == Leave("FSM", "FSMExit", FSM_exit(Inner, TopBlock))
StateExit == Leave("State", "StateExit", State_exit(Inner, TopBlock))

\* the finally clause of a with-block that an exception leaves
finally(S, b) ==
  IF b.kind \in {"If", "Elif", "Else"} THEN If_finally(S, b)
  ELSE IF b.kind = "Switch" THEN Switch_finally(S, b)
  ELSE IF b.kind \in {"Case", "Default"} THEN Case_finally(S, b)
  ELSE IF b.kind = "FSM" THEN FSM_finally(S, b)
  ELSE State_finally(S, b)

\* the exception in flight leaves the innermost with-block
Propagate ==
  /\ exc # NoExc
  /\ blocks # << >>
  /\ Set(finally(Inner, TopBlock), Last("propagate", "", << >>, << >>, 0))
  /\ UNCHANGED <<ncalls, nerrs>>

\* the user's program handles the exception where it is
Catch ==
  /\ exc # NoExc
  /\ Set([Cur EXCEPT !.exc = NoExc], Last("catch", "", << >>, << >>, 0))
  /\ UNCHANGED <<ncalls, nerrs>>

\* m.elaborate(platform), made outside every with-block
Elaborate ==
  /\ blocks = << >>
  /\ Commit(elaborate(Cur), Last("elaborate", "", << >>, << >>, 0))
  /\ UNCHANGED ncalls

Next ==
  \/ AddStatement(MaxCalls, OneAssign)
  \/ If(MaxCalls) \/ Elif(MaxCalls) \/ Else(MaxCalls)
  \/ IfExit \/ ElifExit \/ ElseExit
  \/ Switch(MaxCalls) \/ Case(MaxCalls) \/ Default(MaxCalls)
  \/ SwitchExit \/ CaseExit \/ DefaultExit
  \/ FSM(MaxCalls) \/ State(MaxCalls) \/ SetNext(MaxCalls) \/ Ongoing(MaxCalls)
  \/ FSMExit \/ StateExit
  \/ Propagate \/ Catch \/ Elaborate

Spec == Init /\ [][Next]_vars

\* programs of m.d += and If/Elif/Else only
NextIf ==
  \/ AddStatement(MaxIfCalls, OneAssign)
  \/ If(MaxIfCalls) \/ Elif(MaxIfCalls) \/ Else(MaxIfCalls)
  \/ IfExit \/ ElifExit \/ ElseExit
  \/ Propagate \/ Catch \/ Elaborate

SpecIf == Init /\ [][NextIf]_vars

\* programs of m.d += and Switch/Case/Default only
NextSwitch ==
  \/ AddStatement(MaxSwitchCalls, OneAssign)
  \/ Switch(MaxSwitchCalls) \/ Case(MaxSwitchCalls) \/ Default(MaxSwitchCalls)
  \/ SwitchExit \/ CaseExit \/ DefaultExit
  \/ Propagate \/ Catch \/ Elaborate

SpecSwitch == Init /\ [][NextSwitch]_vars

\* programs of m.d += and FSM/State/m.next/ongoing only
NextFSM ==
  \/ AddStatement(MaxFSMCalls, OneAssign)
  \/ FSM(MaxFSMCalls) \/ State(MaxFSMCalls) \/ SetNext(MaxFSMCalls) \/ Ongoing(MaxFSMCalls)
  \/ FSMExit \/ StateExit
  \/ Propagate \/ Catch \/ Elaborate

SpecFSM == Init /\ [][NextFSM]_vars

\* m.d.<domain> += fsm.ongoing(n).eq(..): the user's program assigns the
\* indicator that the query returns
AddOngoing(max) ==
  \E f \in 1..Len(fsms), n \in StateNames, d \in Domains :
    LET S1 == ongoing(Cur, f, n)
        lhss == << << DictGet(S1.fsms[f].ongoing, n) >> >>
    IN Call(max, add_statement(S1, AssignStmts(lhss), d), Last("add", d, lhss, << >>, f))

\* programs of FSMs whose indicators the user's program also assigns
NextOngoing ==
  \/ AddStatement(MaxFSMCalls, OneAssign)
  \/ AddOngoing(MaxFSMCalls)
  \/ FSM(MaxFSMCalls) \/ State(MaxFSMCalls) \/ SetNext(MaxFSMCalls) \/ Ongoing(MaxFSMCalls)
  \/ FSMExit \/ StateExit
  \/ Propagate \/ Catch \/ Elaborate

SpecOngoing == Init /\ [][NextOngoing]_vars

\* programs of If blocks and of appends that pass several assignments, or
\* one assignment with several left-hand-side signals, in one call
NextAssign ==
  \/ AddStatement(MaxAssignCalls, AssignInputs)
  \/ If(MaxAssignCalls)
  \/ IfExit
  \/ Propagate \/ Catch \/ Elaborate

SpecAssign == Init /\ [][NextAssign]_vars

(* ------------------------- the claims --------------------------------- *)

\* the signals on the left-hand sides of the last m.d.<domain> += call, in order
CallSignals == UNION {{last.assigns[i][k] : k \in 1..Len(last.assigns[i])} : i \in 1..Len(last.assigns)}
Conflicting(s) == s \in DOMAIN driving /\ driving[s] # last.name

\* the call left its assignments, in order, at the end of the list of its domain
Appended ==
  LET n == Len(last.assigns)
      lst == statements[last.name]
  IN /\ Len(lst) >= n
     /\ \A i \in 1..n :
          /\ lst[Len(lst) - n + i].t = "assign"
          /\ lst[Len(lst) - n + i].lhs = last.assigns[i]
          /\ lst[Len(lst) - n + i].id = nstmt - n + i

\* apart from the KeyError of a broken FSM frame that the call's flush popped,
\* the call raises exactly when one of its signals is driven from another domain,
\* and the error names that domain and the call's
C1_AfterAppend ==
  (last.op = "add" /\ exc.type # "KeyError") =>
     /\ (\E s \in CallSignals : Conflicting(s)) <=> exc # NoExc
     /\ exc # NoExc =>
          /\ exc.type = "SyntaxError" /\ exc.what = "driver-conflict"
          /\ exc.sig \in CallSignals /\ Conflicting(exc.sig)
          /\ exc.a = last.name /\ exc.b = driving[exc.sig]
     /\ exc = NoExc => Appended

\* a recorded driver is never removed or changed
C1_RegistryKept ==
  \A s \in DOMAIN driving : s \in DOMAIN driving' /\ driving'[s] = driving[s]

\* C1: appending an assignment to a signal under a domain other than the one
\* recorded for it raises a driver conflict naming both domains, at any nesting
\* depth; an append under the recorded domain is accepted; the registry keeps the
\* first recorded domain of every signal.
C1_DriverConflict == [](C1_AfterAppend) /\ [][C1_RegistryKept]_vars

\* a conflict raised inside a State body, for a signal first driven before the FSM
C1_Witness ==
  /\ last.op = "add" /\ exc.what = "driver-conflict"
  /\ blocks # << >> /\ TopBlock.kind = "State"
  /\ \E i \in 1..Len(TopBlock.outer[exc.b]) :
        /\ TopBlock.outer[exc.b][i].t = "assign"
        /\ \E k \in 1..Len(TopBlock.outer[exc.b][i].lhs) : TopBlock.outer[exc.b][i].lhs[k] = exc.sig

\* the FSMs that were closed with at least one state body
ClosedFSMs == {f \in DOMAIN fsms : fsms[f].signal.set /\ fsms[f].states # << >>}

\* C2: when an FSM with at least one state body is closed, the encoding of its
\* initial state (the configured init, or the first declared state) is 0,
\* whatever the order in which the states were declared or referenced.
C2_InitEncodingZero ==
  \A f \in ClosedFSMs : DictGet(fsms[f].encoding, fsm_init_name(fsms[f])) = 0

(* first-matching-case evaluation of an emitted Switch node *)

\* the values the conditions a (1 bit) and b (2 bits) can hold
CondValues == [a : 0..1, b : 0..3]
Truth(c, val) == val[c.n] # 0
\* the bits a part of Cat(..) contributes, least significant first
PartBits(c, val) ==
  IF c.w = 1 \/ c.bool THEN << Truth(c, val) >>
  ELSE [k \in 1..c.w |-> (val[c.n] \div (2 ^ (k - 1))) % 2 = 1]
RECURSIVE CatBits(_, _)
CatBits(parts, val) ==
  IF parts = << >> THEN << >> ELSE PartBits(Head(parts), val) \o CatBits(Tail(parts), val)
\* a pattern is written most significant bit first
Matches(pat, bits) ==
  LET n == Len(bits)
  IN /\ Len(pat.s) = n
     /\ \A j \in 1..n : \/ pat.s[j] = "-"
                        \/ pat.s[j] = "1" /\ bits[n - j + 1]
                        \/ pat.s[j] = "0" /\ ~bits[n - j + 1]
KeyMatches(key, bits) == key = NoneKey \/ \E i \in 1..Len(key) : Matches(key[i], bits)
SetMin(s) == CHOOSE x \in s : \A y \in s : x <= y
Selected(node, val) ==
  LET bits == CatBits(node.test.parts, val)
      hits == {i \in 1..Len(node.cases) : KeyMatches(node.cases[i].key, bits)}
  IN IF hits = {} THEN << >> ELSE node.cases[SetMin(hits)].body

\* what the chain means: the body of the first branch whose test is true,
\* else the Else body, else nothing
HasElse(data) == Len(data.bodies) > Len(data.tests)
Expected(data, d, val) ==
  LET trues == {i \in 1..Len(data.tests) : Truth(data.tests[i], val)}
  IN IF trues # {} THEN data.bodies[SetMin(trues)][d]
     ELSE IF HasElse(data) THEN data.bodies[Len(data.bodies)][d]
     ELSE << >>

PoppedIfs == {i \in 1..Len(popped) : popped[i].name = "If"}
Touched(data) == {d \in Domains : \E k \in 1..Len(data.bodies) : data.bodies[k][d] # << >>}
Emitted(p, d) == p.after[d][Len(p.after[d])]
EmittedOne(p, d) == p.after[d] = Append(p.before[d], Emitted(p, d))

\* C3: for every If chain that is closed and every domain a branch wrote in,
\* the node emitted for the domain, evaluated first-match, selects for every
\* value of the tests the body of the first true branch, else the Else body,
\* else nothing; a domain no branch wrote in gets no node.
C3_IfFirstMatch ==
  \A i \in PoppedIfs : \A d \in Domains :
    LET p == popped[i]
    IN IF d \in Touched(p.data)
       THEN /\ EmittedOne(p, d)
            /\ Emitted(p, d).t = "switch"
            /\ \A val \in CondValues : Selected(Emitted(p, d), val) = Expected(p.data, d, val)
       ELSE p.after[d] = p.before[d]

\* a closed chain If/Elif/Else whose first branch wrote nothing in a domain
\* the second branch wrote in
C3_Witness ==
  \E i \in PoppedIfs : \E d \in Domains :
    LET data == popped[i].data
    IN /\ Len(data.tests) >= 2 /\ HasElse(data)
       /\ data.bodies[1][d] = << >> /\ data.bodies[2][d] # << >>
       /\ data.tests[1].n # data.tests[2].n

\* the character of a pattern that is compared with bit `bit` (bit 0 is the
\* least significant one, the first operand of Cat)
CharAt(pat, bit) == pat.s[Len(pat.s) - bit]

\* C4: the node emitted for a chain of n tests with an Else has a discriminant
\* of n one-bit parts, the tests in declaration order; the k-th case (from 0)
\* has the single pattern of width n with 1 at position k and don't-care at
\* every position below k, and the body of branch k; the last case is the
\* default and its body is the Else body.
C4_IfLowering ==
  \A i \in PoppedIfs : \A d \in Touched(popped[i].data) :
    LET data == popped[i].data
        n == Len(data.tests)
        node == Emitted(popped[i], d)
    IN HasElse(data) =>
         /\ node.test.op = "Cat"
         /\ Len(node.test.parts) = n
         /\ \A k \in 1..n : /\ node.test.parts[k].n = data.tests[k].n
                            /\ node.test.parts[k].w = 1
         /\ Len(node.cases) = n + 1
         /\ \A k \in 1..n :
              /\ Len(node.cases[k].key) = 1
              /\ node.cases[k].key[1].k = "str"
              /\ Len(node.cases[k].key[1].s) = n
              /\ CharAt(node.cases[k].key[1], k - 1) = "1"
              /\ \A b \in 0..(k - 2) : CharAt(node.cases[k].key[1], b) = "-"
              /\ node.cases[k].body = data.bodies[k][d]
         /\ node.cases[n + 1].key = NoneKey
         /\ node.cases[n + 1].body = data.bodies[n + 1][d]

\* a closed chain of two different tests, the first wider than a bit, and an
\* Else that wrote a statement
C4_Witness ==
  \E i \in PoppedIfs :
    LET data == popped[i].data
    IN /\ Len(data.tests) = 2 /\ HasElse(data)
       /\ \E d \in Domains : data.bodies[3][d] # << >>
       /\ data.tests[1].w > 1 /\ data.tests[2].w = 1

\* the names the FSM has an encoding for and no body
Undefined(data) ==
  {data.encoding[i].key : i \in 1..Len(data.encoding)} \
  {data.states[i].key : i \in 1..Len(data.states)}

\* m.next = X where the setter finds an FSM to refer to
RefersByNext == last'.op = "next" /\ ctrl_context # "FSM" /\ fsm_frames(Cur) # {}

C5_Step ==
  /\ last'.op = "ongoing" => exc' = NoExc
  /\ RefersByNext => exc'.type \in {"none", "KeyError"}
  /\ last'.op \in {"next", "ongoing"} => exc'.type # "NameError"
  /\ last'.op = "FSMExit" =>
       LET data == fsms[TopBlock.f]
       IN IF Undefined(data) # {}
          THEN /\ exc'.type = "NameError" /\ exc'.what = "referenced but not defined"
               /\ exc'.a \in Undefined(data)
          ELSE /\ exc'.type \in {"none", "KeyError"}
               /\ exc'.type = "KeyError" <=>
                    (data.states # << >> /\ ~DictHas(data.encoding, fsm_init_name(data)))

\* C5: m.next = X and fsm.ongoing(X) raise no naming error when they are made
\* (ongoing raises nothing; m.next inside a state raises nothing but the
\* KeyError of an earlier broken FSM that its flush closes); the exit of the
\* FSM body raises the naming error exactly when a referenced state has no
\* body by then, so a state whose body comes after the reference is no error.
C5_LateNaming == [][C5_Step]_vars

\* the body of `name` holds m.next = target
NextIn(data, name, target) ==
  \E d \in Domains : \E i \in 1..Len(DictGet(data.states, name)[d]) :
    /\ DictGet(data.states, name)[d][i].t = "next"
    /\ DictGet(data.states, name)[d][i].state = target

\* the exit of an FSM raised the naming error for a state that a transition
\* inside a state body referred to
C5_Witness ==
  /\ last.op = "FSMExit" /\ exc.type = "NameError"
  /\ \E n \in StateNames : DictHas(fsms[last.f].states, n) /\ NextIn(fsms[last.f], n, exc.a)

\* the exit of an FSM raised nothing, and the body of its first state refers
\* to the second, declared after it
C5_ForwardReference ==
  /\ last.op = "FSMExit" /\ exc = NoExc
  /\ Len(fsms[last.f].states) = 2
  /\ NextIn(fsms[last.f], fsms[last.f].states[1].key, fsms[last.f].states[2].key)

\* the encoding of every FSM maps its k names, one to one, onto 0..k-1, in
\* the order they were entered
EncodingCounts ==
  \A f \in DOMAIN fsms :
    LET enc == fsms[f].encoding
    IN /\ \A i \in 1..Len(enc) : enc[i].body = i - 1
       /\ \A i, j \in 1..Len(enc) : enc[i].key = enc[j].key => i = j

Reference == last'.op \in {"State", "next", "ongoing"}
\* the FSM a successful reference is made to
Referred ==
  IF last'.op = "ongoing" THEN last'.f
  ELSE ctrl_stack[Max(fsm_frames(Cur))].id

\* a step leaves every encoding as it is, or it is the first reference to a
\* name and enters it last, with the number of names known before
C6_Step ==
  /\ \A f \in DOMAIN fsms :
       /\ f \in DOMAIN fsms'
       /\ \/ fsms'[f].encoding = fsms[f].encoding
          \/ /\ Reference
             /\ ~DictHas(fsms[f].encoding, last'.name)
             /\ fsms'[f].encoding =
                  Append(fsms[f].encoding, [key |-> last'.name, body |-> Len(fsms[f].encoding)])
  /\ \A f \in DOMAIN fsms' \ DOMAIN fsms : fsms'[f].encoding = << >>
  /\ (Reference /\ (exc' = NoExc \/ last'.op = "ongoing")) =>
       DictHas(fsms'[Referred].encoding, last'.name)

\* C6: the encoding of an FSM is at all times a bijection between the names
\* referenced so far and 0..k-1; a State, m.next or ongoing reference to a new
\* name gives it the next index, and no step changes the index of a known name.
C6_EncodingOrder == [](EncodingCounts) /\ [][C6_Step]_vars

\* a State is opened for the name that ongoing() gave index 0 while another
\* name holds index 1: a repeated reference, of another kind than the first
C6_Witness ==
  /\ last.op = "State" /\ exc = NoExc
  /\ blocks # << >> /\ TopBlock.kind = "State"
  /\ Len(fsms[TopBlock.f].encoding) = 2
  /\ fsms[TopBlock.f].encoding[1].key = last.name
  /\ fsms[TopBlock.f].states = << >>

(* Switch / Case / Default *)

\* the open Switch blocks; each holds its frame while it is open
SwitchBlocks == {j \in 1..Len(blocks) : blocks[j].kind = "Switch"}
\* the cases of the Switch that the innermost (Case or Default) block is in
CasesNow == ctrl_stack[TopBlock.fr].cases
\* A Case can be opened on a Switch frame whose block an exception has left
\* (the frame stays on the stack until the next flush); the flush at the exit
\* of that Case then lowers the frame, as it is, before any registration.
FrameHeld == TopBlock.fr <= Len(ctrl_stack) /\ ctrl_stack[TopBlock.fr].name = "Switch"
FrameKept == TopBlock.fr <= Len(ctrl_stack')
CasesUntouched ==
  IF FrameKept THEN ctrl_stack'[TopBlock.fr].cases = CasesNow
  ELSE \E i \in 1..Len(popped') : popped'[i].data = ctrl_stack[TopBlock.fr]

PoppedSwitches == {i \in 1..Len(popped) : popped[i].name = "Switch"}
SwitchTouched(data) ==
  {d \in Domains : \E k \in 1..Len(data.cases) : data.cases[k].body[d] # << >>}
\* the emitted node carries the registered cases, in order, with their bodies
\* for the domain; a domain no body wrote in gets no node
SwitchNodeKept ==
  \A i \in PoppedSwitches : \A d \in Domains :
    LET p == popped[i]
    IN IF d \in SwitchTouched(p.data)
       THEN /\ EmittedOne(p, d)
            /\ Emitted(p, d).t = "switch"
            /\ Emitted(p, d).cases =
                 [k \in 1..Len(p.data.cases) |->
                    [key |-> p.data.cases[k].key, body |-> p.data.cases[k].body[d]]]
       ELSE p.after[d] = p.before[d]

\* no step changes or removes a registered case of an open Switch
CasesKept ==
  \A j \in SwitchBlocks : j <= Len(blocks') =>
    LET old == ctrl_stack[blocks[j].fr].cases
        new == ctrl_stack'[blocks[j].fr].cases
    IN /\ Len(new) >= Len(old)
       /\ \A i \in 1..Len(old) : new[i] = old[i]

\* the exit of a Case whose pattern-set is registered already
DuplicateExit ==
  /\ last'.op = "CaseExit" /\ FrameHeld
  /\ TopBlock.pats # << >> /\ DictHas(CasesNow, TopBlock.pats)

C7_Step ==
  /\ CasesKept
  /\ DuplicateExit => /\ exc' = NoExc
                      /\ CasesUntouched
                      /\ statements' = TopBlock.outer

\* C7: the exit of a Case whose pattern-set is already registered in its
\* Switch raises nothing, leaves the registered cases as they are and drops
\* the statements of its body; registered cases are never changed, and the
\* node emitted on close carries exactly the registered bodies.
C7_FirstCaseWins == [](SwitchNodeKept) /\ [][C7_Step]_vars

\* all the statements that the cases of a frame hold
CaseStatements(cases) ==
  UNION {{cases[k].body[d][i] : i \in 1..Len(cases[k].body[d])} : k \in 1..Len(cases), d \in Domains}

\* a second Case of the same pattern-set was left: two statements were made,
\* the one of the first body is registered and the other is nowhere
C7_Witness ==
  /\ last.op = "CaseExit" /\ exc = NoExc /\ last.pats # << >>
  /\ blocks # << >> /\ TopBlock.kind = "Switch"
  /\ Len(ctrl_stack[TopBlock.fr].cases) = 1
  /\ ctrl_stack[TopBlock.fr].cases[1].key = last.pats
  /\ nstmt = 2
  /\ {s.id : s \in CaseStatements(ctrl_stack[TopBlock.fr].cases)} = {1}
  /\ statements = EmptyAcc

\* the least number of bits that hold the constant n >= 0
MinBits(n) == CHOOSE k \in 0..8 : n < 2 ^ k /\ (k = 0 \/ n >= 2 ^ (k - 1))
Oversize(p, w) == p.k = "int" /\ MinBits(p.n) > w
WellFormed(p, w) ==
  p.k = "str" => /\ \A j \in 1..Len(p.s) : p.s[j] \in {"0", "1", "-", " ", "\t"}
                 /\ Len(SelectSeq(p.s, LAMBDA c : c \in {"0", "1", "-"})) = w
\* Case(..) called where a Switch is open for it
CaseCalled == last'.op = "Case" /\ ctrl_context = "Switch" /\ get_ctrl(Cur, "Switch") # 0
SwitchWidth == ctrl_stack[Len(ctrl_stack)].test.w
DefaultSeen == DictHas(ctrl_stack[Len(ctrl_stack)].cases, NoneKey)
AfterDefault == [kind |-> "after-default", n |-> 0]
WiderWarnings(ps, w) ==
  LET wide == SelectSeq(ps, LAMBDA p : Oversize(p, w))
  IN [i \in 1..Len(wide) |-> [kind |-> "wider", n |-> wide[i].n]]

C8_Step ==
  /\ (CaseCalled /\ \A i \in 1..Len(last'.pats) : WellFormed(last'.pats[i], SwitchWidth)) =>
       /\ exc' = NoExc
       /\ warnings' = warnings \o (IF DefaultSeen THEN <<AfterDefault>> ELSE << >>)
                               \o WiderWarnings(last'.pats, SwitchWidth)
       /\ blocks' = Append(blocks, blocks'[Len(blocks')])
       /\ blocks'[Len(blocks')].kind = "Case"
       /\ blocks'[Len(blocks')].pats =
            SelectSeq(last'.pats, LAMBDA p : ~Oversize(p, SwitchWidth))
  /\ (last'.op = "CaseExit" /\ TopBlock.pats = << >>) =>
       /\ exc' = NoExc
       /\ FrameHeld => CasesUntouched
       /\ statements' = TopBlock.outer

\* C8: a Case call whose string patterns are well formed raises nothing, adds
\* exactly one "wider than the switch value" warning for each constant pattern
\* whose least width exceeds the width of the switch value, and keeps the
\* other patterns, in order; the exit of a Case that kept no pattern adds no
\* case and drops the statements of its body.
C8_OversizeDropped == [][C8_Step]_vars

\* Case(1, 4) on the two-bit value: 4 is dropped with one warning, 1 is kept
C8_Witness ==
  /\ last.op = "Case" /\ exc = NoExc
  /\ last.pats = << IntPat(1), IntPat(4) >>
  /\ blocks # << >> /\ TopBlock.kind = "Case" /\ TopBlock.pats = << IntPat(1) >>
  /\ warnings = << [kind |-> "wider", n |-> 4] >>

NoDuplicates(cases) == \A i, j \in 1..Len(cases) : cases[i].key = cases[j].key => i = j
SwitchFrames == {i \in 1..Len(ctrl_stack) : ctrl_stack[i].name = "Switch"}

\* the key the exit of the innermost block registers its body under
ExitKey == IF last'.op = "CaseExit" THEN TopBlock.pats ELSE NoneKey

\* the cases of an open Switch change only by the exit of a Case or Default
\* of that Switch entering, last, a pattern-set that is not there yet and, for
\* a Case, kept at least one pattern
C9_Grows ==
  \A j \in SwitchBlocks : j <= Len(blocks') =>
    LET old == ctrl_stack[blocks[j].fr].cases
        new == ctrl_stack'[blocks[j].fr].cases
    IN \/ new = old
       \/ /\ last'.op \in {"CaseExit", "DefaultExit"}
          /\ TopBlock.fr = blocks[j].fr
          /\ exc' = NoExc
          /\ Len(new) = Len(old) + 1
          /\ \A i \in 1..Len(old) : new[i] = old[i]
          /\ new[Len(new)].key = ExitKey
          /\ last'.op = "CaseExit" => ExitKey # << >>
          /\ ~DictHas(old, ExitKey)

C9_Step ==
  /\ C9_Grows
  /\ (last'.op = "Switch" /\ exc' = NoExc) => ctrl_stack'[Len(ctrl_stack')].cases = << >>

\* C9: the cases of a Switch never hold a pattern-set twice; they start empty
\* and grow only by one entry, entered last, at the exit of a Case (Default)
\* whose surviving pattern-set (the default key) is not there yet, so there
\* are at most as many as distinct pattern-sets submitted and not dropped, in
\* the order they were first registered; every emitted node carries them in
\* that order.
C9_CaseList ==
  /\ [](\A i \in SwitchFrames : NoDuplicates(ctrl_stack[i].cases))
  /\ [](SwitchNodeKept /\ \A i \in PoppedSwitches : NoDuplicates(popped[i].data.cases))
  /\ [][C9_Step]_vars

\* a node was emitted with three cases, the default one in the middle
C9_Witness ==
  \E i \in PoppedSwitches : \E d \in SwitchTouched(popped[i].data) :
    /\ Len(Emitted(popped[i], d).cases) = 3
    /\ Emitted(popped[i], d).cases[2].key = NoneKey

\* a Case or Default is called in a Switch that has a Default registered
LateCase == CaseCalled /\ DefaultSeen
LateDefault ==
  last'.op = "Default" /\ ctrl_context = "Switch" /\ get_ctrl(Cur, "Switch") # 0 /\ DefaultSeen
\* the exit of a Case (Default) of a Switch that has a Default registered
\* (the block of that Switch is open: the frame is not one an exception left)
OpenSwitch == \E j \in SwitchBlocks : blocks[j].fr = TopBlock.fr
LateExit(op) == last'.op = op /\ FrameHeld /\ OpenSwitch /\ DictHas(CasesNow, NoneKey)
DefaultAt(cases) == CHOOSE i \in 1..Len(cases) : cases[i].key = NoneKey
\* the Case is registered, after the default entry
RegisteredLate ==
  /\ FrameKept
  /\ \E i \in 1..Len(ctrl_stack'[TopBlock.fr].cases) :
       /\ i > DefaultAt(CasesNow)
       /\ ctrl_stack'[TopBlock.fr].cases[i].key = TopBlock.pats
       /\ i > Len(CasesNow)
SecondDefault ==
  /\ LateDefault => exc' = NoExc /\ warnings' = Append(warnings, AfterDefault)
  /\ LateExit("DefaultExit") => exc' = NoExc /\ CasesUntouched

\* the call warns that the case comes after the default one, and raises
\* nothing (a string pattern that is not well formed is an error of its own)
LateCaseWarns ==
  LateCase => /\ Len(warnings') > Len(warnings)
              /\ warnings'[Len(warnings) + 1] = AfterDefault
              /\ (\A i \in 1..Len(last'.pats) : WellFormed(last'.pats[i], SwitchWidth))
                   => exc' = NoExc

C10_AsClaimed ==
  /\ LateCaseWarns
  /\ LateExit("CaseExit") => exc' = NoExc /\ RegisteredLate
  /\ SecondDefault

\* C10 as stated: once a Default is registered, every later Case of the
\* Switch warns, raises nothing and is registered after the default entry; a
\* second Default warns too and leaves the first one's body.
C10_EveryLateCaseRegistered == [][C10_AsClaimed]_vars

C10_Amended ==
  /\ LateCaseWarns
  /\ LateExit("CaseExit") =>
       /\ exc' = NoExc
       /\ IF TopBlock.pats # << >> /\ ~DictHas(CasesNow, TopBlock.pats)
          THEN RegisteredLate
          ELSE CasesUntouched
  /\ SecondDefault

\* C10 (amended): once a Default is registered, every later Case call of the
\* Switch warns, and raises nothing when its string patterns are well formed;
\* at its exit it is registered after the default entry when it kept at least
\* one pattern and its pattern-set is not registered yet, and otherwise
\* leaves the cases as they are; a second Default warns and leaves the first
\* one's body.
C10_LateCase == [](SwitchNodeKept) /\ [][C10_Amended]_vars

\* a Case was left in a Switch whose default entry comes before its entry
C10_Witness ==
  /\ last.op = "CaseExit" /\ exc = NoExc /\ last.pats # << >>
  /\ blocks # << >> /\ TopBlock.kind = "Switch"
  /\ \E i \in 1..Len(warnings) : warnings[i] = AfterDefault
  /\ LET cases == ctrl_stack[TopBlock.fr].cases
     IN /\ Len(cases) >= 2
        /\ cases[Len(cases)].key = last.pats
        /\ cases[Len(cases) - 1].key = NoneKey
        /\ \E d \in Domains : cases[Len(cases)].body[d] # << >>

(* scoping of Elif and Else *)

\* the top of the stack is an If frame that was opened at the current depth,
\* and no Switch or FSM body is being written directly
ChainOpen ==
  /\ ctrl_context = None
  /\ get_ctrl(Cur, "If") # 0
  /\ ctrl_stack[Len(ctrl_stack)].depth = depth
Continues == last'.op \in {"Elif", "Else"}
Rejected ==
  /\ exc'.type = "SyntaxError"
  /\ exc'.what \in {"scoping", "Elif without preceding If", "Else without preceding If/Elif"}
  /\ ctrl_stack' = ctrl_stack /\ blocks' = blocks /\ statements' = statements
  /\ depth' = depth /\ ctrl_context' = ctrl_context
\* the call is accepted exactly when the chain is open, and then it opens a
\* block on the frame at the top; a rejected call changes nothing
C11_Accepts ==
  Continues =>
    IF ChainOpen
    THEN /\ exc' = NoExc
         /\ ctrl_stack' = ctrl_stack
         /\ blocks' = Append(blocks, blocks'[Len(blocks')])
         /\ blocks'[Len(blocks')].fr = Len(ctrl_stack)
    ELSE Rejected
\* the call comes right after an append, a transition, a Switch or an FSM, or
\* the end of an Else
C11_Finalized ==
  (Continues /\ last.op \in {"add", "next", "Switch", "SwitchExit", "FSM", "FSMExit", "ElseExit"})
     => Rejected
\* a chain written before at this depth has been lowered into the accumulator
LoweredChain ==
  \E d \in Domains :
    /\ statements[d] # << >>
    /\ statements[d][Len(statements[d])].t = "switch"
    /\ statements[d][Len(statements[d])].test.op = "Cat"

C11_AsClaimed ==
  /\ C11_Accepts
  /\ C11_Finalized
  /\ (Continues /\ LoweredChain) => Rejected

\* C11 as stated: Elif and Else are accepted only on an open chain at the
\* current depth; after an append, a transition, another If, Switch or FSM
\* that followed the chain, or after its Else, they raise a scoping error and
\* add no branch.
C11_NothingFollowsAChain == [][C11_AsClaimed]_vars

\* C11 (amended): Elif and Else are accepted exactly when no Switch or FSM
\* body is being written directly and the top of the stack is an If frame
\* opened at the current depth, and then join that frame; otherwise they raise
\* a scoping error and change nothing. Right after an append, a transition, a
\* Switch or an FSM at that depth, or the end of an Else, they are rejected.
\* (After another If at that depth they join the chain of that If.)
C11_ElifScoping == [][C11_Accepts /\ C11_Finalized]_vars

\* an Elif was rejected after an append that followed a chain at top level
C11_Witness ==
  /\ last.op = "Elif" /\ exc.what = "Elif without preceding If"
  /\ blocks = << >>
  /\ \E d \in Domains :
       /\ Len(statements[d]) >= 2
       /\ statements[d][Len(statements[d])].t = "assign"
       /\ statements[d][Len(statements[d]) - 1].t = "switch"

(* scoping by context *)

\* the call is written directly in the body of a with-block of this kind
Directly(kind) == blocks # << >> /\ TopBlock.kind = kind
ScopingRaised == exc'.type = "SyntaxError" /\ exc'.what = "scoping"
\* nothing but the exception (and the record of the call) changes
NothingDone ==
  /\ ctrl_stack' = ctrl_stack /\ fsms' = fsms /\ blocks' = blocks
  /\ statements' = statements /\ depth' = depth /\ ctrl_context' = ctrl_context
  /\ driving' = driving /\ warnings' = warnings

C12_Step ==
  /\ last'.op \in {"Case", "Default"} =>
       (ScopingRaised <=> ~Directly("Switch"))
  /\ last'.op = "State" =>
       (ScopingRaised <=> ~Directly("FSM"))
  /\ last'.op \in {"If", "Elif", "Else", "Switch", "FSM"} =>
       (ScopingRaised <=> (Directly("Switch") \/ Directly("FSM")))
  /\ (last'.op \in {"If", "Elif", "Else", "Switch", "Case", "Default", "FSM", "State"}
        /\ ScopingRaised) => NothingDone

\* C12: Case and Default raise the scoping error exactly when they are not
\* written directly in a Switch body, State exactly when it is not written
\* directly in an FSM body, and If, Elif, Else, Switch and FSM exactly when
\* they are written directly in a Switch or FSM body; the rejected call
\* leaves the stack, the FSMs and the accumulators as they were.
C12_ContextScoping == [][C12_Step]_vars

\* an If written directly in the body of an FSM was rejected
C12_Witness ==
  /\ last.op = "If" /\ exc.type = "SyntaxError" /\ exc.what = "scoping"
  /\ blocks # << >> /\ TopBlock.kind = "FSM"

(* m.next *)

\* the open FSM and State blocks; the innermost of them tells where a
\* transition is written
FSMBlocks == {j \in 1..Len(blocks) : blocks[j].kind \in {"FSM", "State"}}
InState == FSMBlocks # {} /\ blocks[Max(FSMBlocks)].kind = "State"
EnclosingFSM == blocks[Max(FSMBlocks)].f
\* the transition is the last statement of the current accumulator, under
\* the domain of the FSM
Recorded(f) ==
  LET lst == statements'[fsms[f].domain]
  IN /\ lst # << >>
     /\ lst[Len(lst)].t = "next"
     /\ lst[Len(lst)].fsm = f
     /\ lst[Len(lst)].state = last'.name
     /\ lst[Len(lst)].id = nstmt' /\ nstmt' = nstmt + 1

C13_Step ==
  last'.op = "next" =>
    IF InState
    THEN exc' = NoExc /\ Recorded(EnclosingFSM)
    ELSE ScopingRaised /\ fsms' = fsms /\ statements' = statements

\* C13: m.next = T is accepted exactly when it is written inside a State body
\* of the innermost enclosing open FSM (directly or inside a construct nested
\* in the state); it is then recorded, for that FSM, in the current
\* accumulator under the domain of the FSM; otherwise it raises the scoping
\* error and leaves every encoding and every accumulator unchanged.
C13_NextOnlyInState == [][C13_Step]_vars

\* the same, for calls made while no call has raised yet
C13_NextBeforeAnyError == [][nerrs = 0 => C13_Step]_vars

(* ------------------------- C14: call order ---------------------------- *)

\* the numbers of the statements of a list, nested bodies included, as they
\* are met reading the list from its start
RECURSIVE Ids(_), CaseIds(_)
Ids(list) ==
  IF list = << >> THEN << >>
  ELSE LET s == Head(list)
       IN (IF s.t = "switch" THEN CaseIds(s.cases) ELSE << s.id >>) \o Ids(Tail(list))
CaseIds(cases) ==
  IF cases = << >> THEN << >> ELSE Ids(Head(cases).body) \o CaseIds(Tail(cases))

Increasing(seq) == \A i \in 1..(Len(seq) - 1) : seq[i] < seq[i + 1]

\* every accumulator there is: the current one, the ones the open with-blocks
\* set aside, the bodies held by the frames and by the FSMs
Accumulators ==
  {statements}
  \cup {blocks[j].outer : j \in 1..Len(blocks)}
  \cup UNION {{ctrl_stack[i].bodies[k] : k \in 1..Len(ctrl_stack[i].bodies)} :
                i \in {i \in 1..Len(ctrl_stack) : ctrl_stack[i].name = "If"}}
  \cup UNION {{ctrl_stack[i].cases[k].body : k \in 1..Len(ctrl_stack[i].cases)} :
                i \in {i \in 1..Len(ctrl_stack) : ctrl_stack[i].name = "Switch"}}
  \cup UNION {{fsms[f].states[k].body : k \in 1..Len(fsms[f].states)} : f \in DOMAIN fsms}

\* statements were numbered as they were appended: in every accumulator and
\* domain the numbers rise, through the nodes
C14_Ordered == \A acc \in Accumulators : \A d \in Domains : Increasing(Ids(acc[d]))

Appends == last'.op \in {"add", "next"} /\ exc' = NoExc
Opens == last'.op \in {"If", "Switch", "FSM"} /\ exc' = NoExc

\* an append or an opening at depth d pops every frame above d, top first,
\* before it places its statement or pushes its frame
C14_Flushes ==
  (Appends \/ Opens) =>
    LET keep == Min(Len(ctrl_stack), depth)
        gone == Len(ctrl_stack) - keep
        flushed == IF gone = 0 THEN statements ELSE popped'[gone].after
    IN /\ Len(popped') = gone
       /\ \A i \in 1..gone : popped'[i].data = ctrl_stack[Len(ctrl_stack) - i + 1]
       /\ \A i \in 1..(gone - 1) : popped'[i + 1].before = popped'[i].after
       /\ gone > 0 => popped'[1].before = statements
       /\ IF Opens
          THEN /\ ctrl_stack' = Append(SubSeq(ctrl_stack, 1, keep), ctrl_stack'[Len(ctrl_stack')])
               /\ blocks'[Len(blocks')].outer = flushed
          ELSE /\ ctrl_stack' = SubSeq(ctrl_stack, 1, keep)
               /\ \A d \in Domains :
                    /\ Len(statements'[d]) >= Len(flushed[d])
                    /\ SubSeq(statements'[d], 1, Len(flushed[d])) = flushed[d]
                    /\ \A i \in (Len(flushed[d]) + 1)..Len(statements'[d]) :
                         statements'[d][i].t # "switch"

\* the node of a Switch or an FSM is placed right after what its scope held
\* when the construct was opened: nothing written later stands before it
C14_Began ==
  (last'.op \in {"SwitchExit", "FSMExit"} /\ exc' = NoExc) =>
    /\ popped' # << >>
    /\ popped'[1].before = TopBlock.outer

\* C14: in a run without errors, an append or the opening of an If, Switch or
\* FSM at depth d first finalizes every pending frame at depth d or deeper, so
\* that in every accumulator and domain the statements and nodes stand in the
\* order of the calls that began them.
C14_CallOrder ==
  /\ [](nerrs = 0 => C14_Ordered)
  /\ [][nerrs' = 0 => (C14_Flushes /\ C14_Began)]_vars

\* the flush alone
C14_FlushFirst == [][nerrs' = 0 => C14_Flushes]_vars

(* ------------------------- C15: where a node lands -------------------- *)

\* no frame is pending above the scope that could take it: at most the frame
\* closed last in the current scope, and none between the bodies of a Switch
\* or an FSM, where the next body would be a sibling
C15_NoStray ==
  /\ Len(ctrl_stack) <= depth + 1
  /\ ctrl_context # None => Len(ctrl_stack) = depth

BodyExits == {"IfExit", "ElifExit", "ElseExit", "CaseExit", "DefaultExit", "StateExit"}
OwnExits == {"ElseExit", "SwitchExit", "FSMExit"}
\* the index on the stack of the i-th frame the step popped
PoppedAt(i) == Len(ctrl_stack) - i + 1
\* the i-th popped frame is the frame of the block that is left
Own(i) == last'.op \in OwnExits /\ PoppedAt(i) = TopBlock.fr
Inside == {i \in 1..Len(popped') : ~Own(i)}
\* the accumulator of the scope that is current, once the frames opened in it
\* are closed
Flushed == IF Inside = {} THEN statements ELSE popped'[Max(Inside)].after

\* a node is put at the end of the accumulator, or nothing is put
AppendsNode(p) ==
  \A d \in Domains :
    \/ p.after[d] = p.before[d]
    \/ /\ Len(p.after[d]) = Len(p.before[d]) + 1
       /\ SubSeq(p.after[d], 1, Len(p.before[d])) = p.before[d]
       /\ p.after[d][Len(p.after[d])].t = "switch"

C15_Step ==
  popped' # << >> =>
    /\ \A i \in 1..Len(popped') : AppendsNode(popped'[i])
    \* a frame opened in the current scope goes to the current accumulator
    /\ \A i \in Inside :
         /\ PoppedAt(i) = depth + 1
         /\ popped'[i].data = ctrl_stack[PoppedAt(i)]
         /\ popped'[i].before = IF i = 1 THEN statements ELSE popped'[i - 1].after
    \* the frame of the block that is left goes to the accumulator the block
    \* was opened in
    /\ \A i \in 1..Len(popped') : Own(i) =>
         /\ i = Len(popped')
         /\ PoppedAt(i) = depth
         /\ statements' = popped'[i].after
         /\ IF last'.op = "ElseExit"
            THEN /\ popped'[i].before = TopBlock.outer
                 /\ popped'[i].data =
                      [ctrl_stack[TopBlock.fr] EXCEPT !.bodies = Append(@, Flushed)]
            ELSE /\ popped'[i].before = statements
                 /\ popped'[i].data = ctrl_stack[TopBlock.fr]
                 /\ \A d \in Domains :
                      SubSeq(statements[d], 1, Len(TopBlock.outer[d])) = TopBlock.outer[d]
    \* the body that is left takes the nodes of the frames opened in it, and
    \* the accumulator outside it is put back as it was
    /\ last'.op \in {"IfExit", "ElifExit"} =>
         /\ ctrl_stack'[TopBlock.fr].bodies = Append(ctrl_stack[TopBlock.fr].bodies, Flushed)
         /\ statements' = TopBlock.outer
    /\ last'.op \in {"CaseExit", "DefaultExit"} =>
         /\ \/ ctrl_stack'[TopBlock.fr].cases = ctrl_stack[TopBlock.fr].cases
            \/ \E key \in {TopBlock.pats, NoneKey} :
                 ctrl_stack'[TopBlock.fr].cases =
                   Append(ctrl_stack[TopBlock.fr].cases, [key |-> key, body |-> Flushed])
         /\ statements' = TopBlock.outer
    /\ last'.op = "StateExit" =>
         /\ DictGet(fsms'[TopBlock.f].states, TopBlock.name) = Flushed
         /\ statements' = TopBlock.outer
    /\ last'.op = "elaborate" => blocks = << >>
    \* no accumulator further out is touched
    /\ \A j \in 1..Min(Len(blocks), Len(blocks')) : blocks'[j] = blocks[j]
    /\ last'.op \in BodyExits \cup OwnExits => Len(blocks') = Len(blocks) - 1

\* C15: in a run without errors, a frame that is closed (by the exit of its
\* own block, by the flush of an append, an opening or a body exit, or by
\* elaborate) puts its node at the end of the accumulator of the scope it was
\* opened in: the body around it, or the top-level accumulator; no sibling
\* body, deeper body or outer scope receives it.
C15_NodeLandsInItsScope ==
  /\ [](nerrs = 0 => C15_NoStray)
  /\ [][nerrs' = 0 => C15_Step]_vars

\* an If chain written in a Case body, closed by the exit of the Case into
\* that body and not into the scope of the Switch
C15_Witness ==
  /\ nerrs = 0 /\ last.op = "CaseExit" /\ popped # << >>
  /\ blocks # << >> /\ TopBlock.kind = "Switch"
  /\ statements = TopBlock.outer
  /\ LET cases == ctrl_stack[TopBlock.fr].cases
     IN /\ cases # << >>
        /\ \E d \in Domains :
             /\ popped[1].after[d] # popped[1].before[d]
             /\ cases[Len(cases)].body[d] = popped[1].after[d]

(* ------------------------- C16: an error leaves a block --------------- *)

\* what the depth counter and the control context are on entering a block
\* that is opened inside the blocks bs
DepthOf(bs) ==
  Cardinality({j \in 1..Len(bs) : bs[j].kind \in {"If", "Elif", "Else", "Switch", "FSM"}})
CtxOf(bs) ==
  IF bs # << >> /\ bs[Len(bs)].kind \in {"Switch", "FSM"} THEN bs[Len(bs)].kind ELSE None

\* in every state the counter and the context are those of the open blocks,
\* so that they are the same before a block is entered and after it is left
C16_Balanced == depth = DepthOf(blocks) /\ ctrl_context = CtxOf(blocks)

\* a step by which an error leaves the innermost block
ErrorLeaves == exc' # NoExc /\ Len(blocks') = Len(blocks) - 1

C16_Leaves ==
  ErrorLeaves =>
    /\ blocks' = SubSeq(blocks, 1, Len(blocks) - 1)
    /\ depth' = DepthOf(blocks')
    /\ ctrl_context' = CtxOf(blocks')
    /\ statements' = TopBlock.outer

\* C16: when an error leaves an If, Elif, Else, Case, Default, State, Switch
\* or FSM block, the current accumulator, the depth counter and the control
\* context are what they were when the block was entered, and the accumulator
\* holds exactly the statements it held then.
C16_ErrorRestores == [](C16_Balanced) /\ [][C16_Leaves]_vars

\* the same for the blocks that set the accumulator aside on entry
C16_BodyErrorRestores ==
  /\ [](C16_Balanced)
  /\ [][(blocks # << >> /\ TopBlock.kind \notin {"Switch", "FSM"}) => C16_Leaves]_vars

(* ------------------------- C17: elaborate ----------------------------- *)

\* a deferred statement stands in the list, at some depth of nodes
RECURSIVE Deferred(_)
Deferred(list) ==
  \E i \in 1..Len(list) :
    \/ list[i].t = "next"
    \/ list[i].t = "switch" /\ \E k \in 1..Len(list[i].cases) : Deferred(list[i].cases[k].body)

\* out is the list src with every transition to a state T of an FSM F, at
\* every depth, turned into F's state signal taking the encoding F has for T,
\* and everything else kept
RECURSIVE ResolvedAs(_, _)
ResolvedAs(src, out) ==
  /\ Len(out) = Len(src)
  /\ \A i \in 1..Len(src) :
       IF src[i].t = "next"
       THEN /\ out[i].t = "assign"
            /\ out[i].lhs = << StateSig(src[i].fsm) >>
            /\ out[i].rhs.op = "const"
            /\ out[i].rhs.f = src[i].fsm
            /\ DictHas(fsms[src[i].fsm].encoding, src[i].state)
            /\ out[i].rhs.code = DictGet(fsms[src[i].fsm].encoding, src[i].state)
       ELSE IF src[i].t = "switch"
       THEN /\ out[i].t = "switch"
            /\ out[i].test = src[i].test
            /\ Len(out[i].cases) = Len(src[i].cases)
            /\ \A k \in 1..Len(src[i].cases) :
                 /\ out[i].cases[k].key = src[i].cases[k].key
                 /\ ResolvedAs(src[i].cases[k].body, out[i].cases[k].body)
       ELSE out[i] = src[i]

\* the domains a popped frame has statements in
FrameDomains(p) ==
  IF p.name = "If" THEN Touched(p.data)
  ELSE IF p.name = "Switch" THEN SwitchTouched(p.data)
  ELSE fsm_domains(fsms[p.data.id])

\* the frames that elaborate found on the stack each put a node behind what
\* was there, in every domain they have statements in
Contributed ==
  /\ \A i \in 1..Len(popped) :
       /\ popped[i].before = IF i = 1 THEN popped[1].before ELSE popped[i - 1].after
       /\ \A d \in FrameDomains(popped[i]) :
            /\ EmittedOne(popped[i], d)
            /\ Emitted(popped[i], d).t = "switch"
  /\ popped # << >> => statements = popped[Len(popped)].after

\* what the Fragment received for a domain, less the ongoing assignments that
\* are added to the comb domain behind it
Submitted(d) ==
  IF d = "comb"
  THEN SubSeq(fragment.stmts[d], 1, Len(fragment.stmts[d]) - Len(top_comb_statements))
  ELSE fragment.stmts[d]

\* C17: after elaborate on a builder none of whose calls raised an error the
\* control stack is empty, every frame that was still open has put its node
\* in the accumulator, and the lists given to the Fragment hold no deferred
\* statement at any depth: every transition is the assignment of the FSM's
\* state signal to the final encoding of its target state.
C17_Elaborated ==
  (fragment.made /\ nerrs = 0) =>
    /\ ctrl_stack = << >>
    /\ Contributed
    /\ \A d \in Domains :
         /\ ~Deferred(fragment.stmts[d])
         /\ Len(fragment.stmts[d]) >= Len(statements[d])
         /\ ResolvedAs(statements[d], Submitted(d))

\* a transition to B written in the body of A before B was declared, found
\* after elaborate inside the node of the FSM as an assignment of encoding 1
C17_Witness ==
  /\ fragment.made /\ nerrs = 0
  /\ \E d \in Domains : \E i \in 1..Len(fragment.stmts[d]) :
       LET node == fragment.stmts[d][i]
       IN /\ node.t = "switch" /\ node.test.op = "fsm_state"
          /\ \E k \in 1..Len(node.cases) : \E j \in 1..Len(node.cases[k].body) :
               LET a == node.cases[k].body[j]
               IN /\ node.cases[k].key = IntKey(0)
                  /\ a.t = "assign" /\ a.lhs = << StateSig(node.test.f) >>
                  /\ a.rhs.op = "const" /\ a.rhs.code = 1
                  /\ DictGet(fsms[node.test.f].encoding, "B") = 1
                  /\ fsms[node.test.f].states[1].key = "A"

\* a pending If chain closed by elaborate itself
C17_PendingClosed == fragment.made /\ nerrs = 0 /\ popped # << >>

(* ------------------------- C18: ongoing indicators -------------------- *)

\* the last call was fsm.ongoing(n) on FSM f, and returned its indicator
Queried(f, n) == last.op = "ongoing" /\ last.f = f /\ last.name = n /\ exc = NoExc
Returned(f, n) == DictGet(fsms[f].ongoing, n)

\* the statements of the elaborated comb list that assign the signal
DrivenAt(sig) ==
  {i \in 1..Len(fragment.stmts["comb"]) : sig \in lhs_signals(<< fragment.stmts["comb"][i] >>)}

\* the elaborated output drives the indicator of state n of FSM f by exactly
\* one assignment, indicator = (state signal == encoding[n]), in comb
DrivenOnce(f, n) ==
  /\ f \in DOMAIN fsms
  /\ DictHas(fsms[f].ongoing, n)
  /\ Cardinality(DrivenAt(Returned(f, n))) = 1
  /\ \A i \in DrivenAt(Returned(f, n)) :
       LET a == fragment.stmts["comb"][i]
       IN /\ a.t = "assign"
          /\ a.lhs = << Returned(f, n) >>
          /\ a.rhs = [op |-> "==", f |-> f, code |-> DictGet(fsms[f].encoding, n)]
  /\ \A d \in Domains \ {"comb"} : Returned(f, n) \notin lhs_signals(fragment.stmts[d])

\* an indicator, once made, is the one every later query returns
C18_Same ==
  /\ \A f \in DOMAIN fsms : \A i \in 1..Len(fsms[f].ongoing) :
       /\ Len(fsms'[f].ongoing) >= i
       /\ fsms'[f].ongoing[i] = fsms[f].ongoing[i]
  /\ (last'.op = "ongoing" /\ exc' = NoExc) =>
       /\ DictHas(fsms'[last'.f].ongoing, last'.name)
       /\ DictGet(fsms'[last'.f].ongoing, last'.name) = OngoingSig(last'.f, last'.name)

\* the statement for every run, with or without errors
C18_OngoingDriven ==
  /\ [][C18_Same]_vars
  /\ \A f \in 1..(MaxCalls + 1) : \A n \in StateNames :
       [](Queried(f, n) => [](fragment.made => DrivenOnce(f, n)))

\* C18: the indicator returned by an ongoing query for a state of an FSM,
\* whenever the query is made, is the same signal on every query, and the
\* elaborated output drives it by exactly one comb assignment,
\* indicator = (state signal == encoding of the state), whatever the FSM's
\* domain. Read here for a query that is the last call before elaborate, in
\* a run in which no call raised an error: one of the points of the call
\* sequence the statement is about.
C18_LastQueryDriven ==
  [][/\ C18_Same
     /\ \A f \in DOMAIN fsms : \A n \in StateNames :
          (Queried(f, n) /\ fragment'.made /\ nerrs' = 0) => DrivenOnce(f, n)']_vars

\* the same for the queries made while the with-block of the FSM is open, in
\* runs without errors
OpenFSM(f) == \E j \in 1..Len(blocks) : blocks[j].kind = "FSM" /\ blocks[j].f = f
C18_OngoingInsideDriven ==
  /\ [][C18_Same]_vars
  /\ \A f \in 1..(MaxCalls + 1) : \A n \in StateNames :
       []((Queried(f, n) /\ OpenFSM(f)) => []((fragment.made /\ nerrs = 0) => DrivenOnce(f, n)))

(* ------------------------- C19: one domain per signal ----------------- *)

\* the domains under which elaborate registered the signal as driven
DriverDomains(sig) == {p[2] : p \in {q \in fragment.drivers : q[1] = sig}}

\* C19: when no call raised an error, the drivers that elaborate gives to
\* the Fragment never register one signal under two domains, the ongoing
\* indicators included, which the builder drives in comb and the user's
\* program can assign under sync.
C19_OneDomainPerSignal ==
  (fragment.made /\ nerrs = 0) =>
    \A p \in fragment.drivers : Cardinality(DriverDomains(p[1])) = 1

(* ------------------------- C20: branches without statements ----------- *)

\* the chains that were closed with as many bodies as tests: If/Elif, no Else
ChainsWithoutElse ==
  {i \in PoppedIfs : ~HasElse(popped[i].data) /\ popped[i].data.bodies # << >>}
\* the branches of the chain that wrote nothing in the domain
EmptyBranches(data, d) == {k \in 1..Len(data.bodies) : data.bodies[k][d] = << >>}

\* C20, as stated: in an If/Elif chain without an Else, the node emitted for a
\* touched domain has no case for a branch that wrote nothing in the domain.
C20_NoCaseForEmptyBranch ==
  \A i \in ChainsWithoutElse : \A d \in Touched(popped[i].data) :
    LET data == popped[i].data
        node == Emitted(popped[i], d)
    IN /\ Len(node.cases) = Len(data.bodies) - Cardinality(EmptyBranches(data, d))
       /\ \A k \in 1..Len(node.cases) : node.cases[k].body # << >>

\* C20, amended: in an If/Elif chain without an Else, the node emitted for a
\* touched domain has one case for every branch of the chain, in the order of
\* the chain; the case of a branch that wrote nothing in the domain has an
\* empty body.
C20_CaseForEveryBranch ==
  \A i \in ChainsWithoutElse : \A d \in Touched(popped[i].data) :
    LET data == popped[i].data
        node == Emitted(popped[i], d)
    IN /\ EmittedOne(popped[i], d)
       /\ node.t = "switch"
       /\ Len(node.cases) = Len(data.bodies)
       /\ \A k \in 1..Len(data.bodies) :
            /\ node.cases[k].body = data.bodies[k][d]
            /\ node.cases[k].key # NoneKey
            /\ \A j \in 1..(k - 1) : node.cases[j].key # node.cases[k].key

\* a chain If/Elif whose last branch wrote nothing in a domain the first wrote in
C20_Witness ==
  \E i \in ChainsWithoutElse : \E d \in Touched(popped[i].data) :
    LET data == popped[i].data
        node == Emitted(popped[i], d)
    IN /\ Len(data.bodies) >= 2
       /\ data.bodies[1][d] # << >>
       /\ data.bodies[Len(data.bodies)][d] = << >>
       /\ node.cases[Len(node.cases)].body = << >>

(* ------------------------- C21: no partial IR ------------------------- *)

\* The frames of constructs that an error left. A Switch or FSM frame is
\* popped by the exit of its own block unless an exception leaves the block,
\* and a body exit pops every frame opened in the body unless an exception
\* leaves the body: so a Switch or FSM frame above the depth counter, and any
\* frame more than one above it, is the frame of a construct whose body, or
\* the body around it, was left by an error.
Orphans ==
  {i \in 1..Len(ctrl_stack) :
     /\ i > depth
     /\ (ctrl_stack[i].name \in {"Switch", "FSM"} \/ i > depth + 1)}

\* no such frame is there before any error
C21_OrphansOnlyAfterError == nerrs = 0 => Orphans = {}

\* a step that pops such a frame takes nothing from it
C21_Step ==
  \A i \in 1..Len(popped') :
    PoppedAt(i) \in Orphans =>
      /\ popped'[i].after = popped'[i].before
      /\ popped'[i].name = "FSM" => top_comb_statements' = top_comb_statements

\* C21: once an error has left the body of a construct, no later call and not
\* elaborate adds to an accumulator or to the output a node or statement of
\* that construct or of a construct nested in its body.
C21_NoPartialIR == [](C21_OrphansOnlyAfterError) /\ [][C21_Step]_vars

\* the characterisation alone
C21_OrphansAreFailed == [](C21_OrphansOnlyAfterError)

(* ------------------------- C22: a rejected append --------------------- *)

ConflictRaised == last'.op = "add" /\ exc'.what = "driver-conflict"
\* nothing of the call is kept
NothingRecorded ==
  /\ statements' = statements
  /\ driving' = driving
  /\ nstmt' = nstmt
  /\ ctrl_stack' = ctrl_stack
  /\ blocks' = blocks

\* C22: when an append is rejected with a driver conflict, the accumulators
\* and the driver registry are as they were before the call, also when the
\* call passes several assignments or several left-hand-side signals and
\* only a later one conflicts.
C22_RejectedAppendKeepsNothing == [][ConflictRaised => NothingRecorded]_vars

\* the same when the first signal of the call is the one that conflicts and
\* no frame is pending
FirstSignal == last'.assigns[1][1]
C22_FirstSignalRejected ==
  [][(ConflictRaised /\ exc'.sig = FirstSignal /\ Len(ctrl_stack) <= depth)
       => NothingRecorded]_vars

(* ------------------------- C23: the stack and the depth --------------- *)

\* the stack holds as many frames as the depth counter says, or one more,
\* which is then an If chain with its branches finished and no Else
C23_StackTracksDepth ==
  \/ Len(ctrl_stack) = depth
  \/ /\ Len(ctrl_stack) = depth + 1
     /\ LET top == ctrl_stack[Len(ctrl_stack)]
        IN /\ top.name = "If"
           /\ top.bodies # << >>
           /\ Len(top.bodies) = Len(top.tests)

\* the frame that the exit of an Else, Switch or FSM block removes is the
\* frame of that block: the If frame of the chain of the Else, the Switch
\* frame, the frame of that FSM
C23_OwnFrameRemoved ==
  last'.op \in OwnExits =>
    /\ popped' # << >>
    /\ Own(Len(popped'))
    /\ LET fr == ctrl_stack[TopBlock.fr]
       IN /\ fr.name = (IF TopBlock.kind = "Else" THEN "If" ELSE TopBlock.kind)
          /\ TopBlock.kind = "FSM" => fr.id = TopBlock.f
          /\ popped'[Len(popped')].name = fr.name
    /\ ctrl_stack' = SubSeq(ctrl_stack, 1, TopBlock.fr - 1)

\* C23: in a run without errors, after every call the control stack has as
\* many frames as the depth counter, or exactly one more (a finished If/Elif
\* chain that an Elif or Else may still continue), and the exit of an Else,
\* Switch or FSM body removes the frame of that same construct.
C23_StackDiscipline ==
  /\ [](nerrs = 0 => C23_StackTracksDepth)
  /\ [][nerrs' = 0 => C23_OwnFrameRemoved]_vars

\* an If chain nested in an Else body is closed first, then the Else's own
\* chain is removed, and the stack is level with the depth again
C23_Witness ==
  /\ nerrs = 0 /\ last.op = "ElseExit"
  /\ Len(popped) = 2
  /\ popped[2].name = "If" /\ HasElse(popped[2].data)
  /\ Len(ctrl_stack) = depth

(* ------------------------- C24: the closed FSM ------------------------ *)

\* the FSM frames that the last step lowered, of FSMs with a state body
PoppedFSMs ==
  {i \in 1..Len(popped) : popped[i].name = "FSM" /\ fsms[popped[i].data.id].states # << >>}

\* the initial state: the configured one, else the first given a body
InitialState(data) == IF data.init # None THEN data.init ELSE data.states[1].key

\* what a step that lowers the frame of an FSM makes of it; the state bodies
\* are those the FSM has when the step begins (a body is stored only by the
\* exit of its State block, after the flush), the encoding is the one it has
\* when the step ends (a name is entered before the flush)
C24_Step ==
  \A i \in 1..Len(popped') :
    (popped'[i].name = "FSM" /\ fsms[popped'[i].data.id].states # << >>) =>
      LET p == popped'[i]
          f == p.data.id
          states == fsms[f].states
          init == InitialState(fsms[f])
          encoding == fsms'[f].encoding
          signal == fsms'[f].signal
          k == Len(encoding)
          touched == fsm_domains(fsms[f])
      IN /\ signal.set
         /\ DictHas(encoding, init)
         /\ signal.init = DictGet(encoding, init)
         /\ signal.n = k
         /\ {encoding[j].body : j \in 1..k} = 0..(k - 1)
         /\ \A d \in touched :
              LET node == Emitted(p, d)
              IN /\ EmittedOne(p, d)
                 /\ node.t = "switch"
                 /\ node.test = [op |-> "fsm_state", parts |-> << >>, f |-> f]
                 /\ Len(node.cases) = Len(states)
                 /\ \A j \in 1..Len(states) :
                      /\ node.cases[j].key = IntKey(DictGet(encoding, states[j].key))
                      /\ node.cases[j].body = states[j].body[d]
         /\ \A d \in Domains \ touched : p.after[d] = p.before[d]

\* C24: when an FSM with at least one state body is closed, the reset value
\* of its state signal is the encoding of its initial state (the configured
\* init, else the first state given a body), the range of the signal is the
\* encodings 0..k-1 that were assigned, and the emitted node has one case for
\* every declared state, keyed by the encoding of the state.
C24_ClosedFSM == [][C24_Step]_vars

\* an FSM closed with init="A" whose state A was declared second: the reset
\* value is A's encoding 1, and A's case is the second, keyed 1
C24_Witness ==
  /\ last.op = "FSMExit" /\ exc = NoExc
  /\ \E i \in PoppedFSMs :
       LET data == fsms[popped[i].data.id]
       IN /\ data.init = "A"
          /\ Len(data.states) = 2 /\ data.states[2].key = "A"
          /\ data.signal.init = 1
          /\ fsm_domains(data) # {}

====
